---- MODULE Spec2Model ----
(***************************************************************************)
(* A model of the Kudu client access layer (src/src/client/client.cc):     *)
(* the deadline-bounded retry driver RetryFunc with the admin calls that   *)
(* use it (CreateTable, AlterTable, AlterTableBuilder), and the write      *)
(* session KuduSession with the batchers it rotates; the scanner          *)
(* KuduScanner; the resettable heartbeater with its test; and the         *)
(* create-table stress test with the master's GetTableLocations.          *)
(*                                                                         *)
(* Time is counted in nanoseconds, as MonoTime does.  TLC's integers are   *)
(* 32 bits wide, so the completion deadlines of the admin calls (15 s and  *)
(* 60 s in the source) and the admin RPC timeout (5 s) are scaled by       *)
(* 1/5000 to 3 ms, 12 ms and 1 ms; the arithmetic of RetryFunc itself      *)
(* (1000, 5/4, nanoseconds against microseconds) is kept as written.       *)
(***************************************************************************)
EXTENDS Integers, Sequences, FiniteSets, TLC

VARIABLES
    \* ---- the admin thread: RetryFunc, CreateTable, AlterTable
    a_pc,          \* position of the admin caller
    a_op,          \* the call in progress: "none", "RetryFunc", "CreateTable", "AlterTable"
    clock,         \* MonoTime::Now(MonoTime::FINE), nanoseconds
    now,           \* RetryFunc: local now
    entry_now,     \* RetryFunc: the clock at entry (-1 before it is entered)
    deadline,      \* the deadline handed to RetryFunc
    stime,         \* RetryFunc: local stime
    wait_time,     \* RetryFunc: local wait_time
    s,             \* RetryFunc: the status func returned last
    retry,         \* RetryFunc: local retry
    calls,         \* number of invocations of func so far
    sleeps,        \* number of usleep calls so far
    last_sleep,    \* the last usleep: <<length in usec, clock when it ended>>
    result,        \* the status the admin call returned
    rpcs,          \* the requests sent to the master, in order
    probe_failed,  \* the first failure status the completion probe returned
    alter_steps_,  \* AlterTableBuilder::alter_steps_
    opts,          \* CreateTableOptions of the CreateTable call
    alter_name,    \* AlterTable: the table name the probe asks about
    builder_status,\* the status the last AlterTableBuilder operation returned
    \* ---- the write session: KuduSession and its batchers
    flush_mode_,        \* KuduSession::flush_mode_
    batcher_,           \* KuduSession::batcher_: the current batcher (an index of batchers)
    flushed_batchers_,  \* KuduSession::flushed_batchers_: the in-flight set
    lock_,              \* KuduSession::lock_: <<"free", 0>>, <<"user", t>> or <<"batcher", b>>
    batchers,           \* every Batcher created so far
    s_pc,               \* position of each user thread
    s_op,               \* the session call each user thread is in, or returned from
    s_ret,              \* the status the call returned
    s_val,              \* the number or truth value (1, 0) the call returned
    old_batcher,        \* FlushAsync: local old_batcher
    sync,               \* Flush: the status its Synchronizer was signalled with
    crashed,            \* a CHECK has failed: the process is gone
    applied,            \* per mutation handed to Batcher::Add, in order: the number of
                        \*   rotating flushes (NewBatcher calls of FlushAsync) before it
    timeout_ms_,        \* KuduSession::timeout_ms_
    add_to,             \* Apply: the batcher that batcher_-> was read as (0: not read)
    stm_millis,         \* SetTimeoutMillis: its argument millis (-2: not in the call)
    destroyed,          \* ~KuduSession has run
    aborted,            \* the batchers Abort was called on
    \* ---- the scanner: KuduScanner, its tablet server and its detached closers
    open_,              \* KuduScanner::open_
    data_in_open_,      \* KuduScanner::data_in_open_
    next_req_,          \* KuduScanner::next_req_
    last_response_,     \* KuduScanner::last_response_
    projection_,        \* KuduScanner::projection_
    sc_pc,              \* the scanner's user: "idle", "destroyed" (the scanner is gone), "crashed"
    sc_op,              \* the last call made on the scanner
    sc_ret,             \* the status it returned
    sc_val,             \* the value HasMoreRows returned
    ts_rpcs,            \* the Scan requests sent to the tablet server, in order
    closers,            \* every CloseCallback created so far
    stored_ids,         \* the scanner ids a successful Open stored, in order
    uaf,                \* memory of the scanner was used after the scanner was destroyed
    \* ---- the resettable heartbeater, its worker, its callers and its test
    hb_time,            \* the time, milliseconds
    hb_wpc,             \* the worker: "none" (not started), "wait", "callback", "exited"
    should_run_,        \* the worker is to go on
    hb_token,           \* the reset token: the current wait is to be cut short
    hb_waited,          \* how long the current wait has lasted, milliseconds
    hb_last_reset,      \* the time of the most recent Reset, or of Start
    hb_since,           \* the callbacks fired since then
    hb_fires,           \* the callbacks fired in all
    hb_resets,          \* the Reset calls made in all
    hb_joined,          \* a Stop has joined the worker and returned
    hb_upc,             \* per calling thread: "idle" or "stop_join"
    hb_uop,             \* per calling thread: its last call
    hb_uret,            \* per calling thread: the status the call returned
    latch_,             \* ResettableHeartbeaterTest::latch_: its count
    t_pc,               \* the test thread: its position in the test body
    t_test,             \* the test it runs
    t_i,                \* TestResetHeartbeats: the loop counter i
    t_slept,            \* how long the test thread has been in its usleep or WaitFor
    st_pc,              \* the create-table stress test: its position in the test body
    tablets,            \* the master's catalog: the tablets of the table, in key order
    gtl_req,            \* GetTableLocations: the last request
    gtl_s,              \* the status it returned
    gtl_resp            \* the tablet_locations of its response

adminVars == <<a_pc, a_op, clock, now, entry_now, deadline, stime, wait_time, s, retry, calls,
               sleeps, last_sleep, result, rpcs, probe_failed, alter_steps_, opts,
               alter_name, builder_status>>

\* The timeout, the destruction and the unlocked read of Apply.
sessAux == <<timeout_ms_, add_to, stm_millis, destroyed, aborted>>

sessVars == <<flush_mode_, batcher_, flushed_batchers_, lock_, batchers, s_pc, s_op,
              s_ret, s_val, old_batcher, sync, crashed, applied, sessAux>>

scanVars == <<open_, data_in_open_, next_req_, last_response_, projection_, sc_pc, sc_op,
              sc_ret, sc_val, ts_rpcs, closers, stored_ids, uaf>>

hbVars == <<hb_time, hb_wpc, should_run_, hb_token, hb_waited, hb_last_reset, hb_since,
            hb_fires, hb_resets, hb_joined, hb_upc, hb_uop, hb_uret, latch_>>

testVars == <<t_pc, t_test, t_i, t_slept>>

\* The create-table stress test: the position of its body, the tablets of the
\* table in the master's catalog, and the last GetTableLocations request with
\* the status and the locations it returned.
stressVars == <<st_pc, tablets, gtl_req, gtl_s, gtl_resp>>

vars == <<adminVars, sessVars, scanVars, hbVars, testVars, stressVars>>

\* The variables the admin actions leave alone, those the session actions do,
\* those the scanner actions do and those the heartbeater actions do.
NotAdminVars == <<sessVars, scanVars, hbVars, testVars, stressVars>>
NotSessVars == <<adminVars, scanVars, hbVars, testVars, stressVars>>
NotScanVars == <<adminVars, sessVars, hbVars, testVars, stressVars>>
NotHbVars == <<adminVars, sessVars, scanVars, stressVars>>
NotStressVars == <<adminVars, sessVars, scanVars, hbVars, testVars>>

----------------------------------------------------------------------------
\* Bounds of the model.

\* The deadlines RetryFunc is called with directly are (k - 1) * DeadlineStepNs
\* after the current time, k in 0 .. MaxDeadlineSteps: one in the past, one equal
\* to the current time, the rest in the future.  The step is chosen so that the
\* first sleep (1250 us) ends 600 ns before the first future deadline.
MaxDeadlineSteps == 5
DeadlineStepNs == 1250600
\* One call of func, or one RPC, lasts k * DurStepNs, k in 0 .. MaxDurSteps.
MaxDurSteps == 1
DurStepNs == 700000
\* AlterTableBuilder holds at most MaxSteps schema steps.
MaxSteps == 1
\* CreateTableOptions holds at most MaxSplitKeys split keys.
MaxSplitKeys == 2
\* The scaled deadlines and timeout (see the head of the module), milliseconds.
CreateTableDeadlineMs == 3
AlterTableDeadlineMs == 12
AdminTimeoutMs == 1

\* Program constants.
NsPerUsec == 1000
NsPerMsec == 1000000
InitialWaitTime == 1000

----------------------------------------------------------------------------
\* Status values: a code and a message.

Status(code, msg) == [code |-> code, msg |-> msg]
OK == Status("OK", "")
TimedOut(msg) == Status("TimedOut", msg)
InvalidArgument(msg) == Status("InvalidArgument", msg)
IllegalState(msg) == Status("IllegalState", msg)
\* No status yet.
NoStatus == Status("none", "")

\* A transport failure of an RPC, and the status embedded in a response.
TransportErrors == {Status("NetworkError", "rpc"), Status("TimedOut", "rpc")}
ServerErrors == {Status("NotFound", "server")}

Min(a, b) == IF a < b THEN a ELSE b

FuncDurations == {k * DurStepNs : k \in 0 .. MaxDurSteps}
RawDeadlines == {(k - 1) * DeadlineStepNs : k \in 0 .. MaxDeadlineSteps}

NewTableNames == {"t2"}
SplitKeys == {"k_00000", "k_00001"}
SplitKeyLists == UNION {[1 .. n -> SplitKeys] : n \in 0 .. MaxSplitKeys}

----------------------------------------------------------------------------
\* RetryFunc (client.cc:71-105)

\* A deadline equal to the current time taken as still ahead.
ComesBefore_OrEqual(a, b) == a <= b

\* MonoTime::ComesBefore
ComesBefore(a, b) == a < b

\* The message RetryFunc times out with, per caller.
TimeoutMsg(op) ==
    CASE op = "CreateTable" -> "Timeout out waiting for Table Creation"
      [] op = "AlterTable" -> "Timeout out waiting for AlterTable"
      [] OTHER -> "timeout_msg"

\* timeout_usec of line 95: both deltas in nanoseconds.
TimeoutUsec(dl, n, st) == (dl - n) - (n - st)

\* The new wait_time of line 98.
NextWaitTime(wt, timeout_usec) == Min((wt * 5) \div 4, timeout_usec)

\* usleep(usec): the clock after the sleep.
Usleep(t, usec) == t + usec * NsPerUsec

\* The last status of func returned when the deadline has passed.
DeadlineStatus_Last(op, last) == last

\* The status RetryFunc returns once the deadline has passed (lines 77, 104).
DeadlineStatus(op, last) == TimedOut(TimeoutMsg(op))

\* TimedOut returned although func cleared the retry flag.
NoRetryStatus_TimedOut(op, last) == TimedOut(TimeoutMsg(op))

\* The status RetryFunc returns when func cleared the retry flag (line 86).
NoRetryStatus(op, last) == last

\* Lines 75-80: the deadline is checked before the first attempt.
RetryEntry ==
    /\ a_pc = "retry_entry"
    /\ now' = clock
    /\ entry_now' = clock
    /\ IF ~ComesBefore(clock, deadline)
         THEN /\ result' = DeadlineStatus(a_op, s)
              /\ a_pc' = "done"
              /\ UNCHANGED wait_time
         ELSE /\ wait_time' = InitialWaitTime
              /\ a_pc' = "retry_call"
              /\ UNCHANGED result
    /\ UNCHANGED <<a_op, clock, deadline, stime, s, retry, calls, sleeps, last_sleep, rpcs,
                   probe_failed, alter_steps_, opts, alter_name,
                   builder_status>>
    /\ UNCHANGED NotAdminVars

\* What one invocation of func yields: <<status, retry, duration>>.
\* An arbitrary func: any status, either value of the flag.
RawOutcomes ==
    {<<st, r, d>> : st \in {OK} \cup TransportErrors, r \in BOOLEAN, d \in FuncDurations}

\* IsCreateTableInProgress / IsAlterTableInProgress (lines 201-217, 271-287) with
\* the RPC timeout deadline - now: a transport failure and an embedded error
\* return before the flag is written, so it keeps RetryFunc's default (true).
ProbeOutcomes(timeout) ==
    LET dur(d) == IF d < timeout THEN d ELSE IF timeout > 0 THEN timeout ELSE 0
    IN  {<<IF d < timeout THEN Status("NetworkError", "rpc") ELSE Status("TimedOut", "rpc"),
           TRUE, dur(d)>> : d \in FuncDurations}
        \cup {<<e, TRUE, d>> : e \in ServerErrors, d \in {x \in FuncDurations : x < timeout}}
        \cup {<<OK, ~done, d>> : done \in BOOLEAN, d \in {x \in FuncDurations : x < timeout}}

ProbeRpc(op) == IF op = "CreateTable" THEN "IsCreateTableDone" ELSE "IsAlterTableDone"

\* Lines 82-84: one attempt.
RetryCall ==
    /\ a_pc = "retry_call"
    /\ UNCHANGED entry_now
    /\ stime' = now
    /\ \E o \in IF a_op = "RetryFunc" THEN RawOutcomes ELSE ProbeOutcomes(deadline - clock) :
         /\ s' = o[1]
         /\ retry' = o[2]
         /\ clock' = clock + o[3]
         /\ IF a_op = "RetryFunc"
              THEN UNCHANGED <<rpcs, probe_failed>>
              ELSE /\ rpcs' = Append(rpcs, [rpc |-> ProbeRpc(a_op), table |-> alter_name])
                   /\ probe_failed' = IF o[1] = OK \/ probe_failed # NoStatus
                                        THEN probe_failed ELSE o[1]
    /\ calls' = calls + 1
    /\ a_pc' = "retry_check"
    /\ UNCHANGED <<a_op, now, deadline, wait_time, sleeps, last_sleep, result, alter_steps_, opts,
                   alter_name, builder_status>>
    /\ UNCHANGED NotAdminVars

\* Lines 85-98: return func's status, or give up, or compute the next sleep.
RetryCheck ==
    /\ a_pc = "retry_check"
    /\ UNCHANGED entry_now
    /\ IF ~retry
         THEN /\ result' = NoRetryStatus(a_op, s)
              /\ a_pc' = "done"
              /\ UNCHANGED <<now, wait_time>>
         ELSE /\ now' = clock
              /\ IF ~ComesBefore(clock, deadline)
                   THEN /\ result' = DeadlineStatus(a_op, s)
                        /\ a_pc' = "done"
                        /\ UNCHANGED wait_time
                   ELSE /\ UNCHANGED result
                        /\ IF TimeoutUsec(deadline, clock, stime) > 0
                             THEN /\ wait_time' = NextWaitTime(wait_time,
                                                      TimeoutUsec(deadline, clock, stime))
                                  /\ a_pc' = "retry_sleep"
                             ELSE /\ UNCHANGED wait_time
                                  /\ a_pc' = "retry_call"
    /\ UNCHANGED <<a_op, clock, deadline, stime, s, retry, calls, sleeps, last_sleep, rpcs,
                   probe_failed, alter_steps_, opts, alter_name,
                   builder_status>>
    /\ UNCHANGED NotAdminVars

\* Lines 99-100: usleep(wait_time); now = MonoTime::Now().
RetrySleep ==
    /\ a_pc = "retry_sleep"
    /\ UNCHANGED entry_now
    /\ clock' = Usleep(clock, wait_time)
    /\ now' = clock'
    /\ sleeps' = sleeps + 1
    /\ last_sleep' = <<wait_time, clock'>>
    /\ a_pc' = "retry_call"
    /\ UNCHANGED <<a_op, deadline, stime, wait_time, s, retry, calls, result, rpcs,
                   probe_failed, alter_steps_, opts, alter_name,
                   builder_status>>
    /\ UNCHANGED NotAdminVars

\* RetryFunc called on its own, with an arbitrary func and deadline.
CallRetryFunc ==
    /\ a_pc = "idle"
    /\ UNCHANGED entry_now
    /\ \E d \in RawDeadlines : deadline' = clock + d
    /\ a_op' = "RetryFunc"
    /\ a_pc' = "retry_entry"
    /\ UNCHANGED <<clock, now, stime, wait_time, s, retry, calls, sleeps, last_sleep, result, rpcs,
                   probe_failed, alter_steps_, opts, alter_name,
                   builder_status>>
    /\ UNCHANGED NotAdminVars

----------------------------------------------------------------------------
\* AlterTableBuilder (client.cc:590-652)

\* AlterTableBuilder::AlterTableBuilder: an empty request.
NewAlterTableRequestPB ==
    [has_new_table_name |-> FALSE, new_table_name |-> "", alter_schema_steps |-> <<>>]

\* The check of AlterTable left out.
has_changes_Always(req) == TRUE

\* AlterTableBuilder::has_changes
has_changes(req) == req.has_new_table_name \/ Len(req.alter_schema_steps) > 0

\* The step not added to the request.
add_alter_schema_steps_Dropped(req, step) == req

\* add_alter_schema_steps and the setters of the step.
add_alter_schema_steps(req, step) ==
    [req EXCEPT !.alter_schema_steps = Append(@, step)]

BuilderFrame ==
    /\ UNCHANGED <<entry_now, a_pc, a_op, clock, now, deadline, stime, wait_time, s, retry, calls,
                   sleeps, last_sleep, result, rpcs, probe_failed, opts, alter_name>>
    /\ UNCHANGED NotAdminVars

\* AlterTableBuilder::Reset clears the schema steps (and only them).
AlterTableBuilder_Reset ==
    /\ a_pc = "idle"
    /\ alter_steps_' = [alter_steps_ EXCEPT !.alter_schema_steps = <<>>]
    /\ builder_status' = OK
    /\ BuilderFrame

RenameTable ==
    /\ a_pc = "idle"
    /\ \E new_name \in NewTableNames :
         alter_steps_' = [alter_steps_ EXCEPT !.has_new_table_name = TRUE,
                                              !.new_table_name = new_name]
    /\ builder_status' = OK
    /\ BuilderFrame

\* AddColumn: a NULL default value is refused before a step is added.
AddColumn ==
    /\ a_pc = "idle"
    /\ Len(alter_steps_.alter_schema_steps) < MaxSteps
    /\ \E default_is_null \in BOOLEAN :
         IF default_is_null
           THEN /\ builder_status' = InvalidArgument("A new column must have a default value")
                /\ UNCHANGED alter_steps_
           ELSE /\ alter_steps_' = add_alter_schema_steps(alter_steps_,
                                      [type |-> "ADD_COLUMN", nullable |-> FALSE])
                /\ builder_status' = OK
    /\ BuilderFrame

AddNullableColumn ==
    /\ a_pc = "idle"
    /\ Len(alter_steps_.alter_schema_steps) < MaxSteps
    /\ alter_steps_' = add_alter_schema_steps(alter_steps_,
                          [type |-> "ADD_COLUMN", nullable |-> TRUE])
    /\ builder_status' = OK
    /\ BuilderFrame

DropColumn ==
    /\ a_pc = "idle"
    /\ Len(alter_steps_.alter_schema_steps) < MaxSteps
    /\ alter_steps_' = add_alter_schema_steps(alter_steps_,
                          [type |-> "DROP_COLUMN", nullable |-> FALSE])
    /\ builder_status' = OK
    /\ BuilderFrame

RenameColumn ==
    /\ a_pc = "idle"
    /\ Len(alter_steps_.alter_schema_steps) < MaxSteps
    /\ alter_steps_' = add_alter_schema_steps(alter_steps_,
                          [type |-> "RENAME_COLUMN", nullable |-> FALSE])
    /\ builder_status' = OK
    /\ BuilderFrame

----------------------------------------------------------------------------
\* KuduClient::CreateTable and KuduClient::AlterTable (client.cc:159-192, 234-262)

\* What one admin RPC with the option-level timeout yields:
\* <<transport status, embedded error or OK, duration>>.
AdminRpcOutcomes ==
    LET timeout == AdminTimeoutMs * NsPerMsec
        fast == {d \in FuncDurations : d < timeout}
    IN  {<<Status("TimedOut", "rpc"), OK, timeout>>}
        \cup {<<Status("NetworkError", "rpc"), OK, d>> : d \in fast}
        \cup {<<OK, e, d>> : e \in ServerErrors \cup {OK}, d \in fast}

\* The split keys added to the request back to front.
PreSplitKeys_Reversed(keys) == [i \in 1 .. Len(keys) |-> keys[Len(keys) + 1 - i]]

\* Lines 174-176: BOOST_FOREACH over opts.split_keys_, add_pre_split_keys(key).
RECURSIVE PreSplitKeys(_)
PreSplitKeys(keys) ==
    IF keys = <<>> THEN <<>>
    ELSE Append(PreSplitKeys(SubSeq(keys, 1, Len(keys) - 1)), keys[Len(keys)])

\* Lines 162-176: the deadline is taken first, then the request is built.
\* SchemaToPB can refuse the schema; then nothing is sent.
CreateTable ==
    /\ a_pc = "idle"
    /\ UNCHANGED entry_now
    /\ a_op' = "CreateTable"
    /\ deadline' = clock + CreateTableDeadlineMs * NsPerMsec
    /\ \E wait_assignment \in BOOLEAN, keys \in SplitKeyLists :
         opts' = [wait_assignment_ |-> wait_assignment, split_keys_ |-> keys]
    /\ alter_name' = "t"
    /\ \E schema_ok \in BOOLEAN :
         IF schema_ok
           THEN a_pc' = "create_rpc" /\ UNCHANGED result
           ELSE a_pc' = "done" /\ result' = InvalidArgument("Invalid schema")
    /\ UNCHANGED <<clock, now, stime, wait_time, s, retry, calls, sleeps, last_sleep, rpcs,
                   probe_failed, alter_steps_, builder_status>>
    /\ UNCHANGED NotAdminVars

\* Lines 178-191.
CreateTableRpc ==
    /\ a_pc = "create_rpc"
    /\ UNCHANGED entry_now
    /\ rpcs' = Append(rpcs, [rpc |-> "CreateTable", table |-> alter_name,
                             pre_split_keys |-> PreSplitKeys(opts.split_keys_)])
    /\ \E o \in AdminRpcOutcomes :
         /\ clock' = clock + o[3]
         /\ IF o[1] # OK
              THEN result' = o[1] /\ a_pc' = "done"
              ELSE IF o[2] # OK
                     THEN result' = o[2] /\ a_pc' = "done"
                     ELSE IF opts.wait_assignment_
                            THEN a_pc' = "retry_entry" /\ UNCHANGED result
                            ELSE a_pc' = "done" /\ result' = OK
    /\ UNCHANGED <<a_op, now, deadline, stime, wait_time, s, retry, calls, sleeps,
                   last_sleep, probe_failed, alter_steps_, opts, alter_name, builder_status>>
    /\ UNCHANGED NotAdminVars

\* Lines 240-249.
AlterTable ==
    /\ a_pc = "idle"
    /\ UNCHANGED entry_now
    /\ a_op' = "AlterTable"
    /\ IF ~has_changes(alter_steps_)
         THEN /\ result' = InvalidArgument("No alter steps provided")
              /\ a_pc' = "done"
              /\ UNCHANGED deadline
         ELSE /\ deadline' = clock + AlterTableDeadlineMs * NsPerMsec
              /\ a_pc' = "alter_rpc"
              /\ UNCHANGED result
    /\ UNCHANGED <<clock, now, stime, wait_time, s, retry, calls, sleeps, last_sleep, rpcs,
                   probe_failed, alter_steps_, opts, alter_name, builder_status>>
    /\ UNCHANGED NotAdminVars

\* Lines 250-259.
AlterTableRpc ==
    /\ a_pc = "alter_rpc"
    /\ UNCHANGED entry_now
    /\ rpcs' = Append(rpcs, [rpc |-> "AlterTable", table |-> "t", req |-> alter_steps_])
    /\ \E o \in AdminRpcOutcomes :
         /\ clock' = clock + o[3]
         /\ IF o[1] # OK
              THEN result' = o[1] /\ a_pc' = "done" /\ UNCHANGED alter_name
              ELSE IF o[2] # OK
                     THEN result' = o[2] /\ a_pc' = "done" /\ UNCHANGED alter_name
                     ELSE /\ alter_name' = IF alter_steps_.has_new_table_name
                                             THEN alter_steps_.new_table_name ELSE "t"
                          /\ a_pc' = "retry_entry"
                          /\ UNCHANGED result
    /\ UNCHANGED <<a_op, now, deadline, stime, wait_time, s, retry, calls, sleeps,
                   last_sleep, probe_failed, alter_steps_, opts, builder_status>>
    /\ UNCHANGED NotAdminVars


----------------------------------------------------------------------------
\* Batcher, as the session sees it (client/batcher.h): a batcher gathers
\* operations, is flushed once, and when its last operation has been answered
\* tells the session (FlushFinished) and then runs the flush callback.

NoCallback == [kind |-> "none", user |-> 0]

\* Batcher::Batcher
NewBatcherRec ==
    [state |-> "gathering", ops |-> 0, muts |-> {}, had_errors |-> FALSE, cb |-> NoCallback,
     fin |-> "no", runner |-> 0, cb_status |-> NoStatus, timeout |-> 0]

\* Batcher::SetTimeoutMillis
Batcher_SetTimeoutMillis(b, millis) == [b EXCEPT !.timeout = millis]

\* Batcher::Add: mutation m (its place in the order of application) joins the
\* batch.
Batcher_Add(b, m) == [b EXCEPT !.ops = @ + 1, !.muts = @ \cup {m}]

\* Batcher::HasPendingOperations
Batcher_HasPendingOperations(b) == b.ops > 0

\* Batcher::CountBufferedOperations
Batcher_CountBufferedOperations(b) == IF b.state = "gathering" THEN b.ops ELSE 0

\* Batcher::FlushAsync, called by thread t: with nothing to send the flush
\* finishes inline on the calling thread.
Batcher_FlushAsync(b, cb, t) ==
    IF b.ops = 0
      THEN [b EXCEPT !.state = "flushed", !.cb = cb, !.fin = "want_lock", !.runner = t]
      ELSE [b EXCEPT !.state = "flushing", !.cb = cb]

\* The status the flush callback is run with.
Batcher_FlushStatus(b) == IF b.had_errors THEN Status("IOError", "Some errors occurred") ELSE OK

----------------------------------------------------------------------------
\* KuduSession (client.cc:451-574)

Users == {1}
\* The threads that can be inside a call of the session at the same time.
Threads == {1, 2}
FlushModes == {"AUTO_FLUSH_SYNC", "AUTO_FLUSH_BACKGROUND", "MANUAL_FLUSH"}
\* At most MaxBatchers batchers are created, each with at most MaxOps operations.
MaxBatchers == 3
MaxOps == 2
\* At most MaxApplied mutations are handed to batchers in all.
MaxApplied == 4

Free == <<"free", 0>>
BatcherIds == 1 .. MaxBatchers
\* A call: its name, its argument (Apply: is the key set; SetFlushMode: the
\* mode asked for) and the flush mode of the session when it was made.
NoOp == [name |-> "none", key_set |-> FALSE, mode |-> "", was |-> ""]
Op(name, was) == [name |-> name, key_set |-> FALSE, mode |-> "", was |-> was]

\* tight_enum_test<FlushMode> with the limits of MAKE_ENUM_LIMITS (lines 56-58).
tight_enum_test(m) == m \in FlushModes

\* Changing to the mode already set allowed with writes buffered.
SetFlushModeStatus_SameModeAllowed(pending, cur, m) ==
    IF pending /\ m # cur
      THEN IllegalState("Cannot change flush mode when writes are buffered")
      ELSE IF ~tight_enum_test(m) THEN InvalidArgument("Bad flush mode") ELSE OK

\* KuduSession::SetFlushMode: the status returned (lines 485-495).
SetFlushModeStatus(pending, cur, m) ==
    IF pending
      THEN IllegalState("Cannot change flush mode when writes are buffered")
      ELSE IF ~tight_enum_test(m) THEN InvalidArgument("Bad flush mode") ELSE OK

\* KuduSession::HasPendingOperations: the value computed under the lock.
HasPendingOperations ==
    \/ Batcher_HasPendingOperations(batchers[batcher_])
    \/ \E b \in flushed_batchers_ : Batcher_HasPendingOperations(batchers[b])

\* KuduSession::CountBufferedOperations: the value computed under the lock.
CountBufferedOperations == Batcher_CountBufferedOperations(batchers[batcher_])

SetFlushMode(t) ==
    /\ ~crashed
    /\ s_pc[t] = "idle"
    /\ \E m \in FlushModes \cup {"BAD"} :
         LET st == SetFlushModeStatus(Batcher_HasPendingOperations(batchers[batcher_]),
                                      flush_mode_, m)
         IN  /\ s_op' = [s_op EXCEPT ![t] = [name |-> "SetFlushMode", key_set |-> FALSE,
                                             mode |-> m, was |-> flush_mode_]]
             /\ s_ret' = [s_ret EXCEPT ![t] = st]
             /\ flush_mode_' = IF st = OK THEN m ELSE flush_mode_
    /\ s_pc' = [s_pc EXCEPT ![t] = "ret"]
    /\ UNCHANGED <<batcher_, flushed_batchers_, lock_, batchers, s_val, old_batcher, sync,
                   crashed>>
    /\ UNCHANGED applied
    /\ UNCHANGED sessAux
    /\ UNCHANGED NotSessVars

\* The call has returned; the thread is free for its next call.
Return(t) ==
    /\ ~crashed
    /\ s_pc[t] = "ret"
    /\ s_pc' = [s_pc EXCEPT ![t] = "idle"]
    /\ s_op' = [s_op EXCEPT ![t] = NoOp]
    /\ s_ret' = [s_ret EXCEPT ![t] = NoStatus]
    /\ s_val' = [s_val EXCEPT ![t] = -1]
    /\ sync' = [sync EXCEPT ![t] = NoStatus]
    /\ old_batcher' = [old_batcher EXCEPT ![t] = 0]
    /\ UNCHANGED <<flush_mode_, batcher_, flushed_batchers_, lock_, batchers, crashed>>
    /\ UNCHANGED applied
    /\ add_to' = [add_to EXCEPT ![t] = 0]
    /\ UNCHANGED <<timeout_ms_, stm_millis, destroyed, aborted>>
    /\ UNCHANGED NotSessVars

\* The key check left out.
ApplyRefuses_Never(key_set) == FALSE

\* Line 506: !insert->row().IsKeySet()
ApplyRefuses(key_set) == ~key_set

\* Lines 505-510: a mutation whose key is not set is refused; else batcher_ is
\* read, without the lock, for the call of Add.
Apply(t) ==
    /\ ~crashed
    /\ s_pc[t] = "idle"
    /\ batchers[batcher_].ops < MaxOps
    /\ Len(applied) < MaxApplied
    /\ flush_mode_ = "AUTO_FLUSH_SYNC" => Len(batchers) < MaxBatchers
    /\ \E key_set \in BOOLEAN :
         /\ s_op' = [s_op EXCEPT ![t] = [name |-> "Apply", key_set |-> key_set,
                                         mode |-> "", was |-> flush_mode_]]
         /\ IF ApplyRefuses(key_set)
              THEN /\ s_ret' = [s_ret EXCEPT ![t] = IllegalState("Key not specified")]
                   /\ s_pc' = [s_pc EXCEPT ![t] = "ret"]
                   /\ UNCHANGED add_to
              ELSE /\ s_pc' = [s_pc EXCEPT ![t] = "apply_add"]
                   /\ add_to' = [add_to EXCEPT ![t] = batcher_]
                   /\ UNCHANGED s_ret
    /\ UNCHANGED <<flush_mode_, batcher_, flushed_batchers_, lock_, batchers, s_val,
                   old_batcher, sync, crashed>>
    /\ UNCHANGED applied
    /\ UNCHANGED <<timeout_ms_, stm_millis, destroyed, aborted>>
    /\ UNCHANGED NotSessVars

\* Lines 510-516: the mutation goes to the current batcher; in AUTO_FLUSH_SYNC
\* mode Flush() follows.
ApplyAdd(t) ==
    /\ ~crashed
    /\ s_pc[t] = "apply_add"
    /\ applied' = Append(applied, Len(batchers) - 1)
    /\ batchers' = [batchers EXCEPT ![add_to[t]] = Batcher_Add(@, Len(applied) + 1)]
    /\ IF flush_mode_ = "AUTO_FLUSH_SYNC"
         THEN /\ s_pc' = [s_pc EXCEPT ![t] = "fa_check"]
              /\ UNCHANGED s_ret
         ELSE /\ s_pc' = [s_pc EXCEPT ![t] = "ret"]
              /\ s_ret' = [s_ret EXCEPT ![t] = OK]
    /\ UNCHANGED <<flush_mode_, batcher_, flushed_batchers_, lock_, s_op, s_val,
                   old_batcher, sync, crashed>>
    /\ UNCHANGED sessAux
    /\ UNCHANGED NotSessVars

\* KuduSession::Flush (lines 519-523): FlushAsync with the callback of a
\* Synchronizer, then Wait.
Flush(t) ==
    /\ ~crashed
    /\ s_pc[t] = "idle"
    /\ Len(batchers) < MaxBatchers
    /\ s_op' = [s_op EXCEPT ![t] = Op("Flush", flush_mode_)]
    /\ s_pc' = [s_pc EXCEPT ![t] = "fa_check"]
    /\ UNCHANGED <<flush_mode_, batcher_, flushed_batchers_, lock_, batchers, s_ret, s_val,
                   old_batcher, sync, crashed>>
    /\ UNCHANGED applied
    /\ UNCHANGED sessAux
    /\ UNCHANGED NotSessVars

\* KuduSession::FlushAsync called by the user, with a callback of the user.
FlushAsync(t) ==
    /\ ~crashed
    /\ s_pc[t] = "idle"
    /\ Len(batchers) < MaxBatchers
    /\ s_op' = [s_op EXCEPT ![t] = Op("FlushAsync", flush_mode_)]
    /\ s_pc' = [s_pc EXCEPT ![t] = "fa_check"]
    /\ UNCHANGED <<flush_mode_, batcher_, flushed_batchers_, lock_, batchers, s_ret, s_val,
                   old_batcher, sync, crashed>>
    /\ UNCHANGED applied
    /\ UNCHANGED sessAux
    /\ UNCHANGED NotSessVars

\* Line 526: CHECK_EQ(flush_mode_, MANUAL_FLUSH).
FlushModeAccepted(m) == m = "MANUAL_FLUSH"

FA_Check(t) ==
    /\ ~crashed
    /\ s_pc[t] = "fa_check"
    /\ IF FlushModeAccepted(flush_mode_)
         THEN s_pc' = [s_pc EXCEPT ![t] = "fa_lock"] /\ UNCHANGED crashed
         ELSE s_pc' = [s_pc EXCEPT ![t] = "crashed"] /\ crashed' = TRUE
    /\ UNCHANGED <<flush_mode_, batcher_, flushed_batchers_, lock_, batchers, s_op, s_ret,
                   s_val, old_batcher, sync>>
    /\ UNCHANGED applied
    /\ UNCHANGED sessAux
    /\ UNCHANGED NotSessVars

\* Line 532: the lock is taken.
FA_Lock(t) ==
    /\ ~crashed
    /\ s_pc[t] = "fa_lock"
    /\ lock_ = Free
    /\ lock_' = <<"user", t>>
    /\ s_pc' = [s_pc EXCEPT ![t] = "fa_new"]
    /\ UNCHANGED <<flush_mode_, batcher_, flushed_batchers_, batchers, s_op, s_ret, s_val,
                   old_batcher, sync, crashed>>
    /\ UNCHANGED applied
    /\ UNCHANGED sessAux
    /\ UNCHANGED NotSessVars

\* The fresh batcher not swapped in: the batcher just flushed stays current.
SwapIn_Keeps(cur, fresh) == cur

\* batcher.swap(batcher_), line 477: the fresh batcher becomes the current one.
SwapIn(cur, fresh) == fresh

\* KuduSession::NewBatcher (lines 471-482), under the lock: a fresh batcher
\* becomes the current one and the previous one is handed back.
NewBatcher(t) ==
    /\ ~crashed
    /\ s_pc[t] = "fa_new"
    /\ batchers' = Append(batchers, Batcher_SetTimeoutMillis(NewBatcherRec, timeout_ms_))
    /\ batcher_' = SwapIn(batcher_, Len(batchers) + 1)
    /\ old_batcher' = [old_batcher EXCEPT ![t] = batcher_]
    /\ s_pc' = [s_pc EXCEPT ![t] = "fa_insert"]
    /\ UNCHANGED <<flush_mode_, flushed_batchers_, lock_, s_op, s_ret, s_val, sync, crashed>>
    /\ UNCHANGED applied
    /\ UNCHANGED sessAux
    /\ UNCHANGED NotSessVars

\* The rotated-out batcher not recorded as in flight.
InsertOrDie_Forgets(set, b) == set

\* InsertOrDie(&flushed_batchers_, old_batcher.get()), line 534.
InsertOrDie(set, b) == set \cup {b}

\* The lock still held when the block of FlushAsync is left.
LockAfterBlock_StillHeld(l) == l

\* Line 535: the lock_guard releases the lock at the end of the block.
LockAfterBlock(l) == Free

\* Lines 534-535: the previous batcher joins the in-flight set; the lock is
\* released at the end of the block.
FA_Insert(t) ==
    /\ ~crashed
    /\ s_pc[t] = "fa_insert"
    /\ IF old_batcher[t] \in flushed_batchers_
         THEN /\ crashed' = TRUE
              /\ s_pc' = [s_pc EXCEPT ![t] = "crashed"]
              /\ UNCHANGED <<flushed_batchers_, lock_>>
         ELSE /\ flushed_batchers_' = InsertOrDie(flushed_batchers_, old_batcher[t])
              /\ lock_' = LockAfterBlock(lock_)
              /\ s_pc' = [s_pc EXCEPT ![t] = "fa_flush"]
              /\ UNCHANGED crashed
    /\ UNCHANGED <<flush_mode_, batcher_, batchers, s_op, s_ret, s_val, old_batcher, sync>>
    /\ UNCHANGED applied
    /\ UNCHANGED sessAux
    /\ UNCHANGED NotSessVars

\* Where the caller of FlushAsync goes when FlushAsync has returned.
AfterFlushAsync(op) == IF op.name = "FlushAsync" THEN "ret" ELSE "wait"

\* Line 540: old_batcher->FlushAsync(user_callback), outside the lock.
FA_Flush(t) ==
    /\ ~crashed
    /\ s_pc[t] = "fa_flush"
    /\ LET cb == IF s_op[t].name = "FlushAsync" THEN [kind |-> "user", user |-> t]
                                                ELSE [kind |-> "sync", user |-> t]
           nb == Batcher_FlushAsync(batchers[old_batcher[t]], cb, t)
       IN  /\ batchers' = [batchers EXCEPT ![old_batcher[t]] = nb]
           /\ s_pc' = [s_pc EXCEPT ![t] = IF nb.fin = "want_lock" THEN "fa_inline"
                                           ELSE AfterFlushAsync(s_op[t])]
    /\ UNCHANGED <<flush_mode_, batcher_, flushed_batchers_, lock_, s_op, s_ret, s_val,
                   old_batcher, sync, crashed>>
    /\ UNCHANGED applied
    /\ UNCHANGED sessAux
    /\ UNCHANGED NotSessVars

\* The flush that finished inline has run its callback: FlushAsync returns.
FA_InlineDone(t) ==
    /\ ~crashed
    /\ s_pc[t] = "fa_inline"
    /\ batchers[old_batcher[t]].fin = "done"
    /\ s_pc' = [s_pc EXCEPT ![t] = AfterFlushAsync(s_op[t])]
    /\ UNCHANGED <<flush_mode_, batcher_, flushed_batchers_, lock_, batchers, s_op, s_ret,
                   s_val, old_batcher, sync, crashed>>
    /\ UNCHANGED applied
    /\ UNCHANGED sessAux
    /\ UNCHANGED NotSessVars

\* Line 522: s.Wait() returns the status the Synchronizer was signalled with.
Wait(t) ==
    /\ ~crashed
    /\ s_pc[t] = "wait"
    /\ sync[t] # NoStatus
    /\ s_ret' = [s_ret EXCEPT ![t] = sync[t]]
    /\ s_pc' = [s_pc EXCEPT ![t] = "ret"]
    /\ UNCHANGED <<flush_mode_, batcher_, flushed_batchers_, lock_, batchers, s_op, s_val,
                   old_batcher, sync, crashed>>
    /\ UNCHANGED applied
    /\ UNCHANGED sessAux
    /\ UNCHANGED NotSessVars

\* The tablet server has answered one operation of a batcher being flushed;
\* with the last answer the batcher starts to finish its flush.
OpDone(b) ==
    /\ ~crashed
    /\ b \in DOMAIN batchers
    /\ batchers[b].state = "flushing"
    /\ batchers[b].ops > 0
    /\ \E ok \in BOOLEAN :
         batchers' = [batchers EXCEPT ![b] =
             IF @.ops = 1
               THEN [@ EXCEPT !.ops = 0, !.had_errors = @ \/ ~ok, !.state = "flushed",
                              !.fin = "want_lock"]
               ELSE [@ EXCEPT !.ops = @ - 1, !.had_errors = @ \/ ~ok]]
    /\ UNCHANGED <<flush_mode_, batcher_, flushed_batchers_, lock_, s_pc, s_op, s_ret,
                   s_val, old_batcher, sync, crashed>>
    /\ UNCHANGED applied
    /\ UNCHANGED sessAux
    /\ UNCHANGED NotSessVars

\* KuduSession::FlushFinished (lines 543-546), called by batcher b: the lock.
FF_Lock(b) ==
    /\ ~crashed
    /\ ~destroyed
    /\ b \in DOMAIN batchers
    /\ batchers[b].fin = "want_lock"
    /\ lock_ = Free
    /\ lock_' = <<"batcher", b>>
    /\ batchers' = [batchers EXCEPT ![b].fin = "locked"]
    /\ UNCHANGED <<flush_mode_, batcher_, flushed_batchers_, s_pc, s_op, s_ret, s_val,
                   old_batcher, sync, crashed>>
    /\ UNCHANGED applied
    /\ UNCHANGED sessAux
    /\ UNCHANGED NotSessVars

\* Line 545: CHECK_EQ(flushed_batchers_.erase(batcher), 1).
FlushFinished(b) ==
    /\ ~crashed
    /\ b \in DOMAIN batchers
    /\ batchers[b].fin = "locked"
    /\ IF b \in flushed_batchers_
         THEN /\ flushed_batchers_' = flushed_batchers_ \ {b}
              /\ lock_' = Free
              /\ batchers' = [batchers EXCEPT ![b].fin = "callback"]
              /\ UNCHANGED crashed
         ELSE /\ crashed' = TRUE
              /\ UNCHANGED <<flushed_batchers_, lock_, batchers>>
    /\ UNCHANGED <<flush_mode_, batcher_, s_pc, s_op, s_ret, s_val, old_batcher, sync>>
    /\ UNCHANGED applied
    /\ UNCHANGED sessAux
    /\ UNCHANGED NotSessVars

\* The batcher runs the flush callback: the user's, or the Synchronizer's of
\* a Flush.
RunCallback(b) ==
    /\ ~crashed
    /\ b \in DOMAIN batchers
    /\ batchers[b].fin = "callback"
    /\ batchers' = [batchers EXCEPT ![b].fin = "done",
                                    ![b].cb_status = Batcher_FlushStatus(batchers[b])]
    /\ sync' = IF batchers[b].cb.kind = "sync"
                 THEN [sync EXCEPT ![batchers[b].cb.user] = Batcher_FlushStatus(batchers[b])]
                 ELSE sync
    /\ UNCHANGED <<flush_mode_, batcher_, flushed_batchers_, lock_, s_pc, s_op, s_ret,
                   s_val, old_batcher, crashed>>
    /\ UNCHANGED applied
    /\ UNCHANGED sessAux
    /\ UNCHANGED NotSessVars

\* KuduSession::HasPendingOperations (lines 548-559): the lock is taken ...
HPO_Lock(t) ==
    /\ ~crashed
    /\ s_pc[t] = "idle"
    /\ lock_ = Free
    /\ lock_' = <<"user", t>>
    /\ s_op' = [s_op EXCEPT ![t] = Op("HasPendingOperations", flush_mode_)]
    /\ s_pc' = [s_pc EXCEPT ![t] = "hpo"]
    /\ UNCHANGED <<flush_mode_, batcher_, flushed_batchers_, batchers, s_ret, s_val,
                   old_batcher, sync, crashed>>
    /\ UNCHANGED applied
    /\ UNCHANGED sessAux
    /\ UNCHANGED NotSessVars

\* ... the batchers are asked, the lock released.
HPO_Eval(t) ==
    /\ ~crashed
    /\ s_pc[t] = "hpo"
    /\ s_val' = [s_val EXCEPT ![t] = IF HasPendingOperations THEN 1 ELSE 0]
    /\ lock_' = Free
    /\ s_pc' = [s_pc EXCEPT ![t] = "ret"]
    /\ UNCHANGED <<flush_mode_, batcher_, flushed_batchers_, batchers, s_op, s_ret,
                   old_batcher, sync, crashed>>
    /\ UNCHANGED applied
    /\ UNCHANGED sessAux
    /\ UNCHANGED NotSessVars

\* KuduSession::CountBufferedOperations (lines 561-566): the lock is taken ...
CBO_Lock(t) ==
    /\ ~crashed
    /\ s_pc[t] = "idle"
    /\ lock_ = Free
    /\ lock_' = <<"user", t>>
    /\ s_op' = [s_op EXCEPT ![t] = Op("CountBufferedOperations", flush_mode_)]
    /\ s_pc' = [s_pc EXCEPT ![t] = "cbo"]
    /\ UNCHANGED <<flush_mode_, batcher_, flushed_batchers_, batchers, s_ret, s_val,
                   old_batcher, sync, crashed>>
    /\ UNCHANGED applied
    /\ UNCHANGED sessAux
    /\ UNCHANGED NotSessVars

\* ... CHECK_EQ(flush_mode_, MANUAL_FLUSH), the current batcher is asked.
CBO_Eval(t) ==
    /\ ~crashed
    /\ s_pc[t] = "cbo"
    /\ IF flush_mode_ = "MANUAL_FLUSH"
         THEN /\ s_val' = [s_val EXCEPT ![t] = CountBufferedOperations]
              /\ lock_' = Free
              /\ s_pc' = [s_pc EXCEPT ![t] = "ret"]
              /\ UNCHANGED crashed
         ELSE /\ crashed' = TRUE
              /\ s_pc' = [s_pc EXCEPT ![t] = "crashed"]
              /\ UNCHANGED <<s_val, lock_>>
    /\ UNCHANGED <<flush_mode_, batcher_, flushed_batchers_, batchers, s_op, s_ret,
                   old_batcher, sync>>
    /\ UNCHANGED applied
    /\ UNCHANGED sessAux
    /\ UNCHANGED NotSessVars

\* The values SetTimeoutMillis is called with.
TimeoutValues == {-1, 0, 1}

\* KuduSession::SetTimeoutMillis (lines 498-502), no lock taken: CHECK_GE, then
\* the store to timeout_ms_ ...
SetTimeoutMillis(t) ==
    /\ ~crashed
    /\ s_pc[t] = "idle"
    /\ s_op' = [s_op EXCEPT ![t] = Op("SetTimeoutMillis", flush_mode_)]
    /\ \E millis \in TimeoutValues :
         IF millis < 0
           THEN /\ crashed' = TRUE
                /\ s_pc' = [s_pc EXCEPT ![t] = "crashed"]
                /\ UNCHANGED <<timeout_ms_, stm_millis>>
           ELSE /\ timeout_ms_' = millis
                /\ stm_millis' = [stm_millis EXCEPT ![t] = millis]
                /\ s_pc' = [s_pc EXCEPT ![t] = "stm_batcher"]
                /\ UNCHANGED crashed
    /\ UNCHANGED <<flush_mode_, batcher_, flushed_batchers_, lock_, batchers, s_ret, s_val,
                   old_batcher, sync, applied, add_to, destroyed, aborted>>
    /\ UNCHANGED NotSessVars

\* ... then batcher_->SetTimeoutMillis(millis) on the batcher that is current now.
STM_Batcher(t) ==
    /\ ~crashed
    /\ s_pc[t] = "stm_batcher"
    /\ batchers' = [batchers EXCEPT ![batcher_] = Batcher_SetTimeoutMillis(@, stm_millis[t])]
    /\ stm_millis' = [stm_millis EXCEPT ![t] = -2]
    /\ s_pc' = [s_pc EXCEPT ![t] = "ret"]
    /\ UNCHANGED <<flush_mode_, batcher_, flushed_batchers_, lock_, s_op, s_ret, s_val,
                   old_batcher, sync, crashed, applied, timeout_ms_, add_to, destroyed,
                   aborted>>
    /\ UNCHANGED NotSessVars

\* Batcher::Abort: the batcher gives up what it holds.
Batcher_Abort(b) == [b EXCEPT !.state = "aborted"]

\* Abort called on the batchers in flight as well.
AbortTargets_InFlightToo(cur, in_flight) == {cur} \cup in_flight

\* ~KuduSession (lines 458-463): batcher_->Abort(), on the current batcher only.
AbortTargets(cur, in_flight) == {cur}

\* KuduSession::~KuduSession: the last reference to the session has gone, so
\* no thread is inside a call.
Destroy ==
    /\ ~crashed
    /\ ~destroyed
    /\ lock_ = Free
    /\ \A t \in Threads : s_pc[t] = "idle"
    /\ destroyed' = TRUE
    /\ aborted' = aborted \cup AbortTargets(batcher_, flushed_batchers_)
    /\ batchers' = [b \in DOMAIN batchers |->
                      IF b \in AbortTargets(batcher_, flushed_batchers_)
                        THEN Batcher_Abort(batchers[b]) ELSE batchers[b]]
    /\ s_pc' = [t \in Threads |-> "destroyed"]
    /\ UNCHANGED <<flush_mode_, batcher_, flushed_batchers_, lock_, s_op, s_ret, s_val,
                   old_batcher, sync, crashed, applied, timeout_ms_, add_to, stm_millis>>
    /\ UNCHANGED NotSessVars

\* A batcher in flight whose session is gone finishes its flush without
\* FlushFinished and goes on to its callback.
FinishDetached(b) ==
    /\ ~crashed
    /\ destroyed
    /\ b \in DOMAIN batchers
    /\ batchers[b].fin = "want_lock"
    /\ batchers' = [batchers EXCEPT ![b].fin = "callback"]
    /\ UNCHANGED <<flush_mode_, batcher_, flushed_batchers_, lock_, s_pc, s_op, s_ret,
                   s_val, old_batcher, sync, crashed, applied>>
    /\ UNCHANGED sessAux
    /\ UNCHANGED NotSessVars

\* KuduSession::KuduSession and KuduSession::Init (lines 451-469).
SessInit ==
    /\ flush_mode_ = "AUTO_FLUSH_SYNC"
    /\ batchers = <<NewBatcherRec>>
    /\ batcher_ = 1
    /\ flushed_batchers_ = {}
    /\ lock_ = Free
    /\ s_pc = [t \in Threads |-> "idle"]
    /\ s_op = [t \in Threads |-> NoOp]
    /\ s_ret = [t \in Threads |-> NoStatus]
    /\ s_val = [t \in Threads |-> -1]
    /\ old_batcher = [t \in Threads |-> 0]
    /\ sync = [t \in Threads |-> NoStatus]
    /\ crashed = FALSE
    /\ applied = <<>>
    /\ timeout_ms_ = 0
    /\ add_to = [t \in Threads |-> 0]
    /\ stm_millis = [t \in Threads |-> -2]
    /\ destroyed = FALSE
    /\ aborted = {}

SessNext ==
    \/ \E t \in Users :
         \/ SetFlushMode(t)
         \/ Return(t)
         \/ Apply(t)
         \/ ApplyAdd(t)
         \/ Flush(t)
         \/ FlushAsync(t)
         \/ FA_Check(t)
         \/ FA_Lock(t)
         \/ NewBatcher(t)
         \/ FA_Insert(t)
         \/ FA_Flush(t)
         \/ FA_InlineDone(t)
         \/ Wait(t)
         \/ HPO_Lock(t)
         \/ HPO_Eval(t)
         \/ CBO_Lock(t)
         \/ CBO_Eval(t)
    \/ \E b \in BatcherIds :
         \/ OpDone(b)
         \/ FF_Lock(b)
         \/ FlushFinished(b)
         \/ RunCallback(b)

\* The steps of the batchers.
BatcherNext ==
    \E b \in BatcherIds :
      \/ OpDone(b)
      \/ FF_Lock(b)
      \/ FlushFinished(b)
      \/ RunCallback(b)

\* The session with its destruction.
SessLifeNext ==
    \/ SessNext
    \/ Destroy
    \/ \E b \in BatcherIds : FinishDetached(b)

\* A call of FlushAsync, step by step.
FlushAsyncSteps(t) ==
    \/ FlushAsync(t)
    \/ FA_Check(t)
    \/ FA_Lock(t)
    \/ NewBatcher(t)
    \/ FA_Insert(t)
    \/ FA_Flush(t)
    \/ FA_InlineDone(t)

\* With two threads at most MaxMTApplied mutations are applied.
MaxMTApplied == 2

\* The calls of FlushAsync that have not created their batcher yet.
FlushesStarting == {t \in Threads : s_pc[t] \in {"fa_check", "fa_lock", "fa_new"}}

\* The calls of two threads, kept within the bounds: the mode is set until it
\* is MANUAL_FLUSH, and no more flushes are started than batchers can be made.
MT_SetFlushMode(t) == flush_mode_ # "MANUAL_FLUSH" /\ SetFlushMode(t)
MT_Apply(t) == Len(applied) < MaxMTApplied /\ Apply(t)
MT_FlushAsync(t) ==
    /\ Len(batchers) + Cardinality(FlushesStarting) < MaxBatchers
    /\ FlushAsync(t)

\* Two threads on one session: the first sets the flush mode, applies and
\* flushes, the second flushes.
SessMTNext ==
    \/ \E t \in Users :
         \/ MT_SetFlushMode(t)
         \/ MT_Apply(t)
         \/ ApplyAdd(t)
    \/ \E t \in Threads :
         \/ Return(t)
         \/ MT_FlushAsync(t)
         \/ FA_Check(t)
         \/ FA_Lock(t)
         \/ NewBatcher(t)
         \/ FA_Insert(t)
         \/ FA_Flush(t)
         \/ FA_InlineDone(t)
    \/ BatcherNext

\* Two threads on one session: both set the timeout, the first sets the flush
\* mode and flushes as well; with nothing applied every flush finishes inline.
SessTimeoutNext ==
    \/ \E t \in Users :
         \/ SetFlushMode(t)
         \/ FlushAsyncSteps(t)
    \/ \E t \in Threads :
         \/ Return(t)
         \/ SetTimeoutMillis(t)
         \/ STM_Batcher(t)
    \/ \E b \in BatcherIds :
         \/ FF_Lock(b)
         \/ FlushFinished(b)
         \/ RunCallback(b)

----------------------------------------------------------------------------
\* KuduScanner (client.cc:658-786)

\* At most MaxScanRpcs Scan requests are sent by Open and NextBatch, and a
\* new scan carries at most MaxPredicates range predicates.
MaxScanRpcs == 2
MaxPredicates == 1

Projections == {"key_only"}
BatchSizes == {4096}

\* An empty string (scanner_id().empty()), and the id the server gives to its
\* n-th scanner.
NoScannerId == <<>>
ServerScannerId(n) == <<"scanner", n>>

\* NewScanRequestPB and ScanRequestPB, empty.  An optional scalar field is <<>>
\* when not set and <<v>> when set to v.
NoNewScanRequest ==
    [present |-> FALSE, tablet_id |-> <<>>, projected_columns |-> <<>>,
     range_predicates |-> 0]
EmptyScanRequestPB ==
    [new_scan_request |-> NoNewScanRequest, batch_size_bytes |-> <<>>,
     scanner_id |-> NoScannerId, close_scanner |-> FALSE]

\* ScanResponsePB, empty.
EmptyScanResponsePB ==
    [has_error |-> FALSE, error |-> OK, has_data |-> FALSE, has_more_results |-> FALSE,
     scanner_id |-> NoScannerId]

\* A Scan RPC that fails in transport: the 5 s timeout set on its controller
\* (lines 695-697, 749) has passed.
ScanRpcErrors == {Status("TimedOut", "rpc")}

\* What is recorded of a request sent to the tablet server: whether it opens a
\* new scan, and its other fields.
Sent(req) ==
    [new_scan |-> req.new_scan_request.present, scanner_id |-> req.scanner_id,
     batch_size_bytes |-> req.batch_size_bytes, close_scanner |-> req.close_scanner]

\* mutable_new_scan_request(): the sub-message, created when absent.
mutable_new_scan_request(req) == [req EXCEPT !.new_scan_request.present = TRUE]

\* What the tablet server can answer to a Scan: an embedded error, or rows or
\* none with or without more results; id is the scanner id of the answer when
\* there are more results.
ScanResponses(id) ==
    {[EmptyScanResponsePB EXCEPT !.has_error = TRUE, !.error = e] : e \in ServerErrors}
    \cup {[EmptyScanResponsePB EXCEPT !.has_data = d, !.has_more_results = m,
                                      !.scanner_id = IF m THEN id ELSE NoScannerId]
            : d \in BOOLEAN, m \in BOOLEAN}

\* KuduScanner::CheckForErrors (lines 756-762)
CheckForErrors(resp) == IF ~resp.has_error THEN OK ELSE resp.error

\* The embedded error of the response not looked at.
ScanStatus_IgnoresError(rpc_status, resp) == rpc_status

\* The status of one synchronous Scan: RETURN_NOT_OK(proxy->Scan(...)), then
\* RETURN_NOT_OK(CheckForErrors()) (lines 699-700, 778-779).
ScanStatus(rpc_status, resp) ==
    IF rpc_status # OK THEN rpc_status ELSE CheckForErrors(resp)

\* A close request sent for a scanner that has no id.
NeedsServerClose_Always(req) == TRUE

\* Line 737: !next_req_.scanner_id().empty()
NeedsServerClose(req) == req.scanner_id # NoScannerId

\* The close request sent without the close_scanner flag.
CloseRequest_NoFlag(req) == [req EXCEPT !.batch_size_bytes = <<0>>]

\* Lines 747-748: the request Close sends.
CloseRequest(req) == [req EXCEPT !.batch_size_bytes = <<0>>, !.close_scanner = TRUE]

\* The close RPC given the scanner's own response and controller.
CloseRpcBuffers_OfScanner(c) == [response |-> <<"scanner", 0>>, controller |-> <<"scanner", 0>>]

\* Lines 749-751: the close RPC is given the response and the controller of
\* closer number c.
CloseRpcBuffers(c) == [response |-> <<"closer", c>>, controller |-> <<"closer", c>>]

\* The rows buffered by Open left out of the answer.
HasMoreRowsValue_IgnoresOpenData(data_in_open, resp) == resp.has_more_results

\* HasMoreRows (line 766)
HasMoreRowsValue(data_in_open, resp) == data_in_open \/ resp.has_more_results

\* A CHECK of the scanner has failed: the process is gone.
ScannerCrash(op) ==
    /\ sc_pc' = "crashed"
    /\ sc_op' = op
    /\ UNCHANGED <<open_, data_in_open_, next_req_, last_response_, projection_, sc_ret,
                   sc_val, ts_rpcs, closers, stored_ids, uaf>>

\* KuduScanner::SetProjection (lines 668-674).  SchemaToColumnPBs can refuse
\* the schema; projection_ is assigned before.
SetProjection ==
    /\ sc_pc = "idle"
    /\ IF open_
         THEN ScannerCrash("SetProjection")
         ELSE /\ \E p \in Projections, ok \in BOOLEAN :
                   /\ projection_' = p
                   /\ IF ok
                        THEN /\ next_req_' = [mutable_new_scan_request(next_req_)
                                                EXCEPT !.new_scan_request.projected_columns = <<p>>]
                             /\ sc_ret' = OK
                        ELSE /\ next_req_' = mutable_new_scan_request(next_req_)
                             /\ sc_ret' = InvalidArgument("Invalid schema")
              /\ sc_op' = "SetProjection"
              /\ UNCHANGED <<open_, data_in_open_, last_response_, sc_pc, sc_val, ts_rpcs,
                             closers, stored_ids, uaf>>
    /\ UNCHANGED NotScanVars

\* KuduScanner::SetBatchSizeBytes (lines 676-679): no check of open_.
SetBatchSizeBytes ==
    /\ sc_pc = "idle"
    /\ \E batch_size \in BatchSizes :
         next_req_' = [next_req_ EXCEPT !.batch_size_bytes = <<batch_size>>]
    /\ sc_ret' = OK
    /\ sc_op' = "SetBatchSizeBytes"
    /\ UNCHANGED <<open_, data_in_open_, last_response_, projection_, sc_pc, sc_val,
                   ts_rpcs, closers, stored_ids, uaf>>
    /\ UNCHANGED NotScanVars

\* KuduScanner::AddConjunctPredicate (lines 681-686)
AddConjunctPredicate ==
    /\ sc_pc = "idle"
    /\ next_req_.new_scan_request.range_predicates < MaxPredicates
    /\ IF open_
         THEN ScannerCrash("AddConjunctPredicate")
         ELSE /\ next_req_' = [mutable_new_scan_request(next_req_)
                                 EXCEPT !.new_scan_request.range_predicates = @ + 1]
              /\ sc_ret' = OK
              /\ sc_op' = "AddConjunctPredicate"
              /\ UNCHANGED <<open_, data_in_open_, last_response_, projection_, sc_pc,
                             sc_val, ts_rpcs, closers, stored_ids, uaf>>
    /\ UNCHANGED NotScanVars

\* KuduScanner::Open (lines 688-713): the request is sent and answered.
Open ==
    /\ sc_pc = "idle"
    /\ Len(ts_rpcs) < MaxScanRpcs
    /\ IF open_
         THEN ScannerCrash("Open")
         ELSE LET req == [mutable_new_scan_request(next_req_)
                            EXCEPT !.new_scan_request.tablet_id = <<"tablet">>]
                  id == ServerScannerId(Len(stored_ids) + 1)
              IN  /\ ts_rpcs' = Append(ts_rpcs, Sent(req))
                  /\ \E rpc_status \in {OK} \cup ScanRpcErrors, resp \in ScanResponses(id) :
                       /\ last_response_' = IF rpc_status = OK THEN resp ELSE last_response_
                       /\ sc_ret' = ScanStatus(rpc_status, last_response_')
                       /\ IF sc_ret' # OK
                            THEN /\ next_req_' = req
                                 /\ UNCHANGED <<open_, data_in_open_, stored_ids>>
                            ELSE /\ data_in_open_' = resp.has_data
                                 /\ next_req_' =
                                      [req EXCEPT !.new_scan_request = NoNewScanRequest,
                                                  !.scanner_id =
                                                     IF resp.has_more_results
                                                       THEN resp.scanner_id ELSE @]
                                 /\ stored_ids' = IF resp.has_more_results
                                                    THEN Append(stored_ids, resp.scanner_id)
                                                    ELSE stored_ids
                                 /\ open_' = TRUE
                  /\ sc_op' = "Open"
                  /\ UNCHANGED <<projection_, sc_pc, sc_val, closers, uaf>>
    /\ UNCHANGED NotScanVars

\* KuduScanner::HasMoreRows (lines 764-767)
HasMoreRows ==
    /\ sc_pc = "idle"
    /\ IF ~open_
         THEN ScannerCrash("HasMoreRows")
         ELSE /\ sc_val' = HasMoreRowsValue(data_in_open_, last_response_)
              /\ sc_op' = "HasMoreRows"
              /\ sc_ret' = OK
              /\ UNCHANGED <<open_, data_in_open_, next_req_, last_response_, projection_,
                             sc_pc, ts_rpcs, closers, stored_ids, uaf>>
    /\ UNCHANGED NotScanVars

\* KuduScanner::NextBatch (lines 769-786): the rows of the Open response, or
\* one more Scan; ExtractRowsFromRowBlockPB can refuse the row block.
NextBatch ==
    /\ sc_pc = "idle"
    /\ Len(ts_rpcs) < MaxScanRpcs
    /\ IF ~open_
         THEN ScannerCrash("NextBatch")
         ELSE /\ sc_op' = "NextBatch"
              /\ \E extract_ok \in BOOLEAN :
                   LET extracted == IF extract_ok THEN OK
                                    ELSE Status("Corruption", "row block")
                   IN  IF data_in_open_
                         THEN /\ data_in_open_' = FALSE
                              /\ sc_ret' = extracted
                              /\ UNCHANGED <<last_response_, ts_rpcs>>
                         ELSE /\ ts_rpcs' = Append(ts_rpcs, Sent(next_req_))
                              /\ \E rpc_status \in {OK} \cup ScanRpcErrors,
                                    resp \in ScanResponses(next_req_.scanner_id) :
                                   /\ last_response_' =
                                        IF rpc_status = OK THEN resp ELSE last_response_
                                   /\ sc_ret' =
                                        IF ScanStatus(rpc_status, last_response_') # OK
                                          THEN ScanStatus(rpc_status, last_response_')
                                          ELSE extracted
                              /\ UNCHANGED data_in_open_
              /\ UNCHANGED <<open_, next_req_, projection_, sc_pc, sc_val, closers,
                             stored_ids, uaf>>
    /\ UNCHANGED NotScanVars

\* The body of KuduScanner::Close (lines 734-754): nothing when not open; no
\* RPC when no scanner id was assigned; else a detached closer is created and
\* the close request is sent asynchronously with the closer's buffers.
CloseBody ==
    IF ~open_
      THEN UNCHANGED <<open_, next_req_, ts_rpcs, closers>>
      ELSE IF ~NeedsServerClose(next_req_)
             THEN /\ open_' = FALSE
                  /\ UNCHANGED <<next_req_, ts_rpcs, closers>>
             ELSE /\ closers' = Append(closers,
                                   [scanner_id |-> next_req_.scanner_id,
                                    buffers |-> CloseRpcBuffers(Len(closers) + 1),
                                    state |-> "in_flight", frees |-> 0,
                                    status |-> NoStatus])
                  /\ ts_rpcs' = Append(ts_rpcs, Sent(CloseRequest(next_req_)))
                  /\ next_req_' = EmptyScanRequestPB
                  /\ open_' = FALSE

Close ==
    /\ sc_pc = "idle"
    /\ CloseBody
    /\ sc_op' = "Close"
    /\ sc_ret' = OK
    /\ UNCHANGED <<data_in_open_, last_response_, projection_, sc_pc, sc_val, stored_ids,
                   uaf>>
    /\ UNCHANGED NotScanVars

\* KuduScanner::~KuduScanner (lines 664-666): Close, then the object is gone.
DestroyScanner ==
    /\ sc_pc = "idle"
    /\ CloseBody
    /\ sc_pc' = "destroyed"
    /\ sc_op' = IF open_ THEN "~KuduScanner" ELSE sc_op
    /\ UNCHANGED <<data_in_open_, last_response_, projection_, sc_ret, sc_val, stored_ids,
                   uaf>>
    /\ UNCHANGED NotScanVars

\* The close RPC of closer c completes or times out: the RPC layer fills the
\* response and the controller it was given, then CloseCallback::Callback
\* (lines 723-729) reads the closer's controller and scanner id and deletes the
\* closer.  Buffers of a scanner that is gone are memory used after free.
CloseCallback(c) ==
    /\ sc_pc # "crashed"
    /\ c \in DOMAIN closers
    /\ closers[c].state = "in_flight"
    /\ \E st \in {OK} \cup ScanRpcErrors :
         closers' = [closers EXCEPT ![c].state = "freed", ![c].status = st,
                                    ![c].frees = @ + 1]
    /\ IF closers[c].buffers.response[1] = "scanner"
         THEN IF sc_pc = "destroyed"
                THEN uaf' = TRUE /\ UNCHANGED last_response_
                ELSE last_response_' = EmptyScanResponsePB /\ UNCHANGED uaf
         ELSE UNCHANGED <<uaf, last_response_>>
    /\ UNCHANGED <<open_, data_in_open_, next_req_, projection_, sc_pc, sc_op, sc_ret,
                   sc_val, ts_rpcs, stored_ids>>
    /\ UNCHANGED NotScanVars

CloserIds == 1 .. MaxScanRpcs

\* KuduScanner::KuduScanner (lines 658-662)
ScanInit ==
    /\ open_ = FALSE
    /\ data_in_open_ = FALSE
    /\ next_req_ = EmptyScanRequestPB
    /\ last_response_ = EmptyScanResponsePB
    /\ projection_ = "none"
    /\ sc_pc = "idle"
    /\ sc_op = "none"
    /\ sc_ret = NoStatus
    /\ sc_val = FALSE
    /\ ts_rpcs = <<>>
    /\ closers = <<>>
    /\ stored_ids = <<>>
    /\ uaf = FALSE

ScanNext ==
    \/ SetProjection
    \/ SetBatchSizeBytes
    \/ AddConjunctPredicate
    \/ Open
    \/ HasMoreRows
    \/ NextBatch
    \/ Close
    \/ DestroyScanner
    \/ \E c \in CloserIds : CloseCallback(c)

----------------------------------------------------------------------------
\* ResettableHeartbeater (util/resettable_heartbeater.h) and its test
\* (resettable_heartbeater-test.cc).  The worker waits up to the period; a
\* wait that elapses without a reset fires the callback, then the next wait
\* begins; Reset arms the reset token, which cuts the wait short and restarts
\* it; Stop clears should_run_, arms the token and joins the worker.  The
\* steps of the worker and of the callers take no time; time passes, in
\* steps of the test's reset interval, only while nothing is due.

kSleepPeriodMsecs == 100
kNumPeriodsToWait == 3
kMaxWaitMsecs == kSleepPeriodMsecs * kNumPeriodsToWait * 20
\* for (int i = 0; i < 10; i++)
kNumResets == 10

\* The division by 4 left out: the test sleeps a whole period before each Reset.
ResetIntervalMsecs_WholePeriod == kSleepPeriodMsecs

\* usleep(kSleepPeriodMsecs / 4 * 1000), in milliseconds.
ResetIntervalMsecs == kSleepPeriodMsecs \div 4

\* The step of the clock.
Quantum == ResetIntervalMsecs

\* A usleep lasts up to MaxOversleep steps longer than asked for; free callers
\* act during the first MaxHbTicks steps and call Reset at most MaxResets times.
MaxOversleep == 1
MaxHbTicks == 6
MaxResets == 2

TestThread == 0
HbCallers == {1, 2}
HbThreads == {TestThread} \cup HbCallers

NoHbOp == [name |-> "none", started |-> FALSE, wpc |-> "none"]
HbOp(name) == [name |-> name, started |-> hb_wpc # "none", wpc |-> hb_wpc]

\* The latch of the test not counted down by the callback.
CountDown_Never(count) == count

\* CountDownLatch::CountDown, called by HeartbeatFunction.
CountDown(count) == IF count > 0 THEN count - 1 ELSE 0

\* The worker is woken by the token: it leaves when it is not to go on, else
\* the wait restarts from zero.
HbWake ==
    /\ hb_wpc = "wait"
    /\ hb_token
    /\ hb_token' = FALSE
    /\ IF ~should_run_
         THEN hb_wpc' = "exited" /\ UNCHANGED hb_waited
         ELSE hb_waited' = 0 /\ UNCHANGED hb_wpc
    /\ UNCHANGED <<hb_time, should_run_, hb_last_reset, hb_since, hb_fires, hb_resets,
                   hb_joined, hb_upc, hb_uop, hb_uret, latch_>>

\* The wait has elapsed without a reset: the callback fires.
HbTimeout ==
    /\ hb_wpc = "wait"
    /\ ~hb_token
    /\ hb_waited >= kSleepPeriodMsecs
    /\ hb_wpc' = "callback"
    /\ hb_fires' = hb_fires + 1
    /\ hb_since' = hb_since + 1
    /\ UNCHANGED <<hb_time, should_run_, hb_token, hb_waited, hb_last_reset, hb_resets,
                   hb_joined, hb_upc, hb_uop, hb_uret, latch_>>

\* ResettableHeartbeaterTest::HeartbeatFunction returns; the next wait begins.
HeartbeatFunction ==
    /\ hb_wpc = "callback"
    /\ latch_' = CountDown(latch_)
    /\ hb_wpc' = "wait"
    /\ hb_waited' = 0
    /\ UNCHANGED <<hb_time, should_run_, hb_token, hb_last_reset, hb_since, hb_fires,
                   hb_resets, hb_joined, hb_upc, hb_uop, hb_uret>>

\* Something the worker does at once is due.
WorkerDue ==
    \/ hb_wpc = "callback"
    \/ hb_wpc = "wait" /\ (hb_token \/ hb_waited >= kSleepPeriodMsecs)

\* Time passes.
HbAdvance ==
    /\ ~WorkerDue
    /\ hb_time' = hb_time + Quantum
    /\ hb_waited' = IF hb_wpc = "wait" THEN hb_waited + Quantum ELSE hb_waited
    /\ UNCHANGED <<hb_wpc, should_run_, hb_token, hb_last_reset, hb_since, hb_fires,
                   hb_resets, hb_joined, hb_upc, hb_uop, hb_uret, latch_>>

\* Start: the worker is launched, or an already-started failure.
HbStart(u) ==
    /\ hb_upc[u] = "idle"
    /\ hb_wpc # "exited"
    /\ hb_uop' = [hb_uop EXCEPT ![u] = HbOp("Start")]
    /\ IF hb_wpc # "none"
         THEN /\ hb_uret' = [hb_uret EXCEPT ![u] = IllegalState("already started")]
              /\ UNCHANGED <<hb_wpc, should_run_, hb_token, hb_waited, hb_last_reset,
                             hb_since>>
         ELSE /\ hb_uret' = [hb_uret EXCEPT ![u] = OK]
              /\ hb_wpc' = "wait"
              /\ should_run_' = TRUE
              /\ hb_token' = FALSE
              /\ hb_waited' = 0
              /\ hb_last_reset' = hb_time
              /\ hb_since' = 0
    /\ UNCHANGED <<hb_time, hb_fires, hb_resets, hb_joined, hb_upc, latch_>>

\* Reset: the token is armed; the caller does not wait for the worker.
HbReset(u) ==
    /\ hb_upc[u] = "idle"
    /\ hb_uop' = [hb_uop EXCEPT ![u] = HbOp("Reset")]
    /\ hb_uret' = [hb_uret EXCEPT ![u] = OK]
    /\ hb_token' = TRUE
    /\ hb_last_reset' = hb_time
    /\ hb_since' = 0
    /\ hb_resets' = hb_resets + 1
    /\ UNCHANGED <<hb_time, hb_wpc, should_run_, hb_waited, hb_fires, hb_joined, hb_upc,
                   latch_>>

\* The stop request kept from the worker.
StopRequest_Forgotten(cur) == cur

\* Stop: should_run_ after the request.
StopRequest(cur) == FALSE

\* Stop: OK at once when there is no worker to join; else the worker is told to
\* leave and the caller joins it.
HbStop(u) ==
    /\ hb_upc[u] = "idle"
    /\ hb_uop' = [hb_uop EXCEPT ![u] = HbOp("Stop")]
    /\ IF hb_wpc = "none" \/ hb_joined
         THEN /\ hb_uret' = [hb_uret EXCEPT ![u] = OK]
              /\ UNCHANGED <<should_run_, hb_token, hb_upc>>
         ELSE /\ should_run_' = StopRequest(should_run_)
              /\ hb_token' = TRUE
              /\ hb_upc' = [hb_upc EXCEPT ![u] = "stop_join"]
              /\ hb_uret' = [hb_uret EXCEPT ![u] = NoStatus]
    /\ UNCHANGED <<hb_time, hb_wpc, hb_waited, hb_last_reset, hb_since, hb_fires,
                   hb_resets, hb_joined, latch_>>

\* The join of Stop returns when the worker has exited.
HbJoin(u) ==
    /\ hb_upc[u] = "stop_join"
    /\ hb_wpc = "exited"
    /\ hb_upc' = [hb_upc EXCEPT ![u] = "idle"]
    /\ hb_uret' = [hb_uret EXCEPT ![u] = OK]
    /\ hb_joined' = TRUE
    /\ UNCHANGED <<hb_time, hb_wpc, should_run_, hb_token, hb_waited, hb_last_reset,
                   hb_since, hb_fires, hb_resets, hb_uop, latch_>>

\* The steps of the worker.
W_Wake == HbWake /\ UNCHANGED testVars /\ UNCHANGED NotHbVars
W_Timeout == HbTimeout /\ UNCHANGED testVars /\ UNCHANGED NotHbVars
W_HeartbeatFunction == HeartbeatFunction /\ UNCHANGED testVars /\ UNCHANGED NotHbVars

\* Free callers: any thread calls Start, Reset and Stop at any time.
G_Start(u) == HbStart(u) /\ UNCHANGED testVars /\ UNCHANGED NotHbVars
G_Reset(u) ==
    /\ hb_resets < MaxResets
    /\ HbReset(u)
    /\ UNCHANGED testVars
    /\ UNCHANGED NotHbVars
G_Stop(u) == HbStop(u) /\ UNCHANGED testVars /\ UNCHANGED NotHbVars
G_Join(u) == HbJoin(u) /\ UNCHANGED testVars /\ UNCHANGED NotHbVars
G_Tick ==
    /\ hb_time < MaxHbTicks * Quantum
    /\ HbAdvance
    /\ UNCHANGED testVars
    /\ UNCHANGED NotHbVars

\* The test thread.  TEST_F(..., TestRegularHeartbeats) and TEST_F(...,
\* TestResetHeartbeats): CreateHeartbeater, ASSERT_STATUS_OK(Start()).
T_Start ==
    /\ t_pc = "start"
    /\ \E test \in {"TestRegularHeartbeats", "TestResetHeartbeats"} :
         /\ t_test' = test
         /\ HbStart(TestThread)
         /\ t_pc' = IF hb_uret'[TestThread] # OK THEN "failed"
                    ELSE IF test = "TestResetHeartbeats" THEN "usleep"
                    ELSE "WaitForCountDown"
    /\ UNCHANGED <<t_i, t_slept>>
    /\ UNCHANGED NotHbVars

\* Time passes while the test thread is in usleep or in latch_.WaitFor.
T_Tick ==
    /\ \/ t_pc = "usleep" /\ t_slept < ResetIntervalMsecs + MaxOversleep * Quantum
       \/ t_pc = "WaitForCountDown" /\ latch_ > 0 /\ t_slept < kMaxWaitMsecs
    /\ HbAdvance
    /\ t_slept' = t_slept + Quantum
    /\ UNCHANGED <<t_pc, t_test, t_i>>
    /\ UNCHANGED NotHbVars

\* TestResetHeartbeats: heartbeater_->Reset(); ASSERT_EQ(kNumPeriodsToWait, latch_.count()).
T_Reset ==
    /\ t_pc = "usleep"
    /\ t_slept >= ResetIntervalMsecs
    /\ HbReset(TestThread)
    /\ IF latch_ # kNumPeriodsToWait
         THEN t_pc' = "failed" /\ UNCHANGED t_i
         ELSE /\ t_i' = t_i + 1
              /\ t_pc' = IF t_i + 1 < kNumResets THEN "usleep" ELSE "WaitForCountDown"
    /\ t_slept' = 0
    /\ UNCHANGED t_test
    /\ UNCHANGED NotHbVars

\* ResettableHeartbeaterTest::WaitForCountDown: CHECK(latch_.WaitFor(kMaxWaitMsecs)).
WaitForCountDown ==
    /\ t_pc = "WaitForCountDown"
    /\ latch_ = 0 \/ t_slept >= kMaxWaitMsecs
    /\ t_pc' = IF latch_ = 0 THEN "stop" ELSE "failed"
    /\ UNCHANGED <<t_test, t_i, t_slept>>
    /\ UNCHANGED hbVars
    /\ UNCHANGED NotHbVars

\* ASSERT_STATUS_OK(heartbeater_->Stop())
T_Stop ==
    /\ t_pc = "stop"
    /\ HbStop(TestThread)
    /\ t_pc' = IF hb_upc'[TestThread] = "stop_join" THEN "join" ELSE "done"
    /\ UNCHANGED <<t_test, t_i, t_slept>>
    /\ UNCHANGED NotHbVars

T_Join ==
    /\ t_pc = "join"
    /\ HbJoin(TestThread)
    /\ t_pc' = IF hb_uret'[TestThread] = OK THEN "done" ELSE "failed"
    /\ UNCHANGED <<t_test, t_i, t_slept>>
    /\ UNCHANGED NotHbVars

\* ResettableHeartbeaterTest::ResettableHeartbeaterTest: latch_(kNumPeriodsToWait).
HbInit ==
    /\ hb_time = 0
    /\ hb_wpc = "none"
    /\ should_run_ = FALSE
    /\ hb_token = FALSE
    /\ hb_waited = 0
    /\ hb_last_reset = 0
    /\ hb_since = 0
    /\ hb_fires = 0
    /\ hb_resets = 0
    /\ hb_joined = FALSE
    /\ hb_upc = [u \in HbThreads |-> "idle"]
    /\ hb_uop = [u \in HbThreads |-> NoHbOp]
    /\ hb_uret = [u \in HbThreads |-> NoStatus]
    /\ latch_ = kNumPeriodsToWait
    /\ t_pc = "start"
    /\ t_test = "none"
    /\ t_i = 0
    /\ t_slept = 0

WorkerNext ==
    \/ W_Wake
    \/ W_Timeout
    \/ W_HeartbeatFunction

\* The heartbeater with free callers.
HbNext ==
    \/ WorkerNext
    \/ G_Tick
    \/ \E u \in HbCallers :
         \/ G_Start(u)
         \/ G_Reset(u)
         \/ G_Stop(u)
         \/ G_Join(u)

\* The heartbeater driven by its test.
TestNext ==
    \/ WorkerNext
    \/ T_Start
    \/ T_Tick
    \/ T_Reset
    \/ WaitForCountDown
    \/ T_Stop
    \/ T_Join

----------------------------------------------------------------------------
AdminInit ==
    /\ a_pc = "idle"
    /\ a_op = "none"
    /\ clock = 0
    /\ now = 0
    /\ entry_now = -1
    /\ deadline = 0
    /\ stime = 0
    /\ wait_time = 0
    /\ s = NoStatus
    /\ retry = TRUE
    /\ calls = 0
    /\ sleeps = 0
    /\ last_sleep = <<0, 0>>
    /\ result = NoStatus
    /\ rpcs = <<>>
    /\ probe_failed = NoStatus
    /\ alter_steps_ = NewAlterTableRequestPB
    /\ opts = [wait_assignment_ |-> TRUE, split_keys_ |-> <<>>]
    /\ alter_name = ""
    /\ builder_status = OK

\* RetryFunc on its own.
RetryNext ==
    \/ CallRetryFunc
    \/ RetryEntry
    \/ RetryCall
    \/ RetryCheck
    \/ RetrySleep

\* The admin calls of the client.
AdminNext ==
    \/ RetryEntry
    \/ RetryCall
    \/ RetryCheck
    \/ RetrySleep
    \/ AlterTableBuilder_Reset
    \/ RenameTable
    \/ AddColumn
    \/ AddNullableColumn
    \/ DropColumn
    \/ RenameColumn
    \/ CreateTable
    \/ CreateTableRpc
    \/ AlterTable
    \/ AlterTableRpc

----------------------------------------------------------------------------
\* The create-table stress test (create-table-stress-test.cc) and the master's
\* GetTableLocations it pokes.  A string is the sequence of its character
\* codes, so that keys compare as the bytes of the std::string do; a status
\* message is the sequence of its words.

kNumTablets == 100

\* The largest max_returned_locations of a request other than the test's own.
MaxReturnedLocations == 3

EmptyKey == <<>>

RECURSIVE Decimal(_)
\* The decimal digits of a non-negative int.
Decimal(i) == IF i < 10 THEN <<48 + i>> ELSE Append(Decimal(i \div 10), 48 + (i % 10))

RECURSIVE ZeroPad(_, _)
\* %0<width>d: zeros on the left up to the width, never a truncation.
ZeroPad(digits, width) ==
    IF Len(digits) >= width THEN digits ELSE ZeroPad(<<48>> \o digits, width)

\* StringPrintf("k_%d", i): the width forgotten.
SplitKey_Unpadded(i) == <<107, 95>> \o Decimal(i)
\* StringPrintf("k_%05d", i).
SplitKey(i) == <<107, 95>> \o ZeroPad(Decimal(i), 5)

\* The literal "k_00000".
k_00000 == <<107, 95, 48, 48, 48, 48, 48>>

RECURSIVE StrLess(_, _)
\* std::string operator<: bytewise, a proper prefix first.
StrLess(x, y) ==
    IF y = <<>> THEN FALSE
    ELSE IF x = <<>> THEN TRUE
    ELSE IF Head(x) # Head(y) THEN Head(x) < Head(y)
    ELSE StrLess(Tail(x), Tail(y))

RECURSIVE BigTableKeys(_)
\* CreateBigTable's loop from i down to 0: keys.push_back(StringPrintf(...)).
BigTableKeys(i) == IF i < 0 THEN <<>> ELSE <<SplitKey(i)>> \o BigTableKeys(i - 1)

\* The master's CreateTable: one tablet per range between consecutive split
\* keys in key order, the first from "" and the last to "".
CreateTablets(split_keys) ==
    LET sorted == SortSeq(split_keys, StrLess)
        n == Len(sorted)
    IN  [i \in 1..(n + 1) |->
            [start_key |-> IF i = 1 THEN EmptyKey ELSE sorted[i - 1],
             end_key |-> IF i = n + 1 THEN EmptyKey ELSE sorted[i]]]

\* GetTableLocationsRequestPB after Clear(): neither optional field set.
NoRequest == [has_start_key |-> FALSE, start_key |-> EmptyKey, max_returned_locations |-> -1]
LocationsRequest(n) == [NoRequest EXCEPT !.max_returned_locations = n]
LocationsRequestFrom(key, n) ==
    [has_start_key |-> TRUE, start_key |-> key, max_returned_locations |-> n]

\* The position of the first tablet a request asks for: the tablet starting at
\* the start key, the first tablet when no start key is given.
StartPosition(tabs, req) ==
    IF req.has_start_key
    THEN CHOOSE i \in 1..Len(tabs) : tabs[i].start_key = req.start_key
    ELSE 1

\* CatalogManager::GetTableLocations: the status and the locations.
CatalogGetTableLocations(tabs, req) ==
    IF req.max_returned_locations <= 0
    THEN [s |-> InvalidArgument(<<"max_returned_locations", "must", "be", "greater",
                                  "than", "0">>),
          locs |-> <<>>]
    ELSE LET first == StartPosition(tabs, req)
             last == Min(first + req.max_returned_locations - 1, Len(tabs))
         IN  [s |-> OK, locs |-> SubSeq(tabs, first, last)]

\* Status::ToString of a failure: the code spelled out, then the message.
StatusToString(st) ==
    IF st.code = "OK" THEN <<"OK">> ELSE <<"Invalid", "argument:">> \o st.msg

\* ASSERT_STR_CONTAINS.
StrContains(str, substr) ==
    \E i \in 1..(Len(str) + 1) :
        /\ i + Len(substr) - 1 <= Len(str)
        /\ SubSeq(str, i, i + Len(substr) - 1) = substr

half_tablets == kNumTablets \div 2
start_key_middle == SplitKey(half_tablets)

\* The call on the catalog manager, its request and its results recorded.
Ask(req) ==
    LET r == CatalogGetTableLocations(tablets, req)
    IN  /\ gtl_req' = req
        /\ gtl_s' = r.s
        /\ gtl_resp' = r.locs

\* CreateBigTable and WaitForRunningTabletCount: the table is completely
\* created before the test starts poking.
CreateBigTable ==
    /\ st_pc = "start"
    /\ tablets' = CreateTablets(BigTableKeys(kNumTablets - 1))
    /\ st_pc' = "created"
    /\ UNCHANGED <<gtl_req, gtl_s, gtl_resp>>
    /\ UNCHANGED NotStressVars

\* Test asking for 0 tablets, should fail.
AskForZero ==
    /\ st_pc = "created"
    /\ Ask(LocationsRequest(0))
    /\ st_pc' = IF StrContains(StatusToString(gtl_s'), <<"must", "be", "greater", "than", "0">>)
                THEN "asked_zero" ELSE "failed"
    /\ UNCHANGED tablets
    /\ UNCHANGED NotStressVars

\* Ask for one, get one, verify.
AskForOne ==
    /\ st_pc = "asked_zero"
    /\ Ask(LocationsRequest(1))
    /\ st_pc' = IF /\ gtl_s' = OK
                   /\ Len(gtl_resp') = 1
                   /\ gtl_resp'[1].start_key = EmptyKey
                   /\ gtl_resp'[1].end_key = k_00000
                THEN "asked_one" ELSE "failed"
    /\ UNCHANGED tablets
    /\ UNCHANGED NotStressVars

\* Ask for half of them, get that number back.
AskForHalf ==
    /\ st_pc = "asked_one"
    /\ Ask(LocationsRequest(half_tablets))
    /\ st_pc' = IF gtl_s' = OK /\ Len(gtl_resp') = half_tablets
                THEN "asked_half" ELSE "failed"
    /\ UNCHANGED tablets
    /\ UNCHANGED NotStressVars

\* Get a single tablet in the middle, make sure we get that one back.
AskForMiddle ==
    /\ st_pc = "asked_half"
    /\ Ask(LocationsRequestFrom(start_key_middle, 1))
    /\ st_pc' = IF /\ gtl_s' = OK
                   /\ Len(gtl_resp') = 1
                   /\ gtl_resp'[1].start_key = start_key_middle
                THEN "passed" ELSE "failed"
    /\ UNCHANGED tablets
    /\ UNCHANGED NotStressVars

\* The start keys of the tablets of the table.
TabletStartKeys == {tablets[i].start_key : i \in 1..Len(tablets)}

\* A caller of GetTableLocations on the table once the test body is through:
\* from the start or from the start key of a tablet, for up to
\* MaxReturnedLocations tablets.
GetTableLocations ==
    /\ st_pc = "passed"
    /\ \E n \in 0..MaxReturnedLocations :
          \/ Ask(LocationsRequest(n))
          \/ \E key \in TabletStartKeys : Ask(LocationsRequestFrom(key, n))
    /\ UNCHANGED <<st_pc, tablets>>
    /\ UNCHANGED NotStressVars

StressInit ==
    /\ st_pc = "start"
    /\ tablets = <<>>
    /\ gtl_req = NoRequest
    /\ gtl_s = NoStatus
    /\ gtl_resp = <<>>

StressNext ==
    \/ CreateBigTable
    \/ AskForZero
    \/ AskForOne
    \/ AskForHalf
    \/ AskForMiddle
    \/ GetTableLocations

Init == AdminInit /\ SessInit /\ ScanInit /\ HbInit /\ StressInit

\* RetryFunc called with an arbitrary func and deadline; the caller is
\* scheduled as long as it has a step to take.
SpecRetry == Init /\ [][RetryNext]_vars /\ WF_vars(RetryNext)

\* The admin thread alone.
SpecAdmin == Init /\ [][AdminNext]_vars

\* One user thread on a session, and the batchers it has flushed.
SpecSession == Init /\ [][SessNext]_vars

\* What the batchers and the holders of the session lock are bound to do.
SessFairness ==
    /\ \A b \in BatcherIds :
         /\ WF_vars(OpDone(b))
         /\ SF_vars(FF_Lock(b))
         /\ WF_vars(FlushFinished(b))
         /\ WF_vars(RunCallback(b))
         /\ WF_vars(FinishDetached(b))
    /\ \A t \in Threads :
         WF_vars(NewBatcher(t) \/ FA_Insert(t) \/ HPO_Eval(t) \/ CBO_Eval(t))

\* The session of one user up to and past its destruction.
SpecSessionLife == Init /\ [][SessLifeNext]_vars /\ SessFairness

\* One session used by two threads that apply and flush.
SpecSessionMT == Init /\ [][SessMTNext]_vars /\ SessFairness

\* One session used by two threads that set the timeout and flush.
SpecSessionTimeout == Init /\ [][SessTimeoutNext]_vars

\* One user of a scanner, the tablet server and the completions of the close
\* RPCs.
SpecScanner == Init /\ [][ScanNext]_vars

\* The heartbeater called by any thread at any time; the worker runs, and a
\* join returns once the worker has exited.
SpecHeartbeater ==
    /\ Init
    /\ [][HbNext]_vars
    /\ WF_vars(WorkerNext)
    /\ \A u \in HbCallers : WF_vars(G_Join(u))

\* The two tests of the heartbeater; the worker, the test thread and the clock
\* go on as long as one of them has a step.
SpecHeartbeaterTest == Init /\ [][TestNext]_vars /\ WF_vars(TestNext)

\* The same, scheduled: every close RPC completes or times out.
SpecScannerFair ==
    /\ Init
    /\ [][ScanNext]_vars
    /\ \A c \in CloserIds : WF_vars(CloseCallback(c))

\* The same, scheduled: every operation of a batcher being flushed is answered,
\* a batcher spinning on the session's lock gets it when it is free again and
\* again, a completion once started runs to its end, and a user thread inside
\* a critical section of the session leaves it.
SpecSessionFair ==
    /\ Init
    /\ [][SessNext]_vars
    /\ \A b \in BatcherIds :
         /\ WF_vars(OpDone(b))
         /\ SF_vars(FF_Lock(b))
         /\ WF_vars(FlushFinished(b))
         /\ WF_vars(RunCallback(b))
    /\ \A t \in Users :
         WF_vars(NewBatcher(t) \/ FA_Insert(t) \/ HPO_Eval(t) \/ CBO_Eval(t))

----------------------------------------------------------------------------
\* The claims about RetryFunc, under SpecRetry.

\* C1: RetryFunc called with a deadline that is not strictly after the current
\* time returns TimedOut(timeout_msg) and invokes func zero times.
C1_ExpiredDeadlineNoAttempt ==
    (a_pc = "done" /\ entry_now >= 0 /\ ~(entry_now < deadline))
        => (result = TimedOut(TimeoutMsg(a_op)) /\ calls = 0 /\ sleeps = 0)

\* The deadline equals the current time at entry, and RetryFunc has returned.
C1_Witness ==
    /\ a_pc = "done"
    /\ entry_now >= 0
    /\ entry_now = deadline
    /\ result = TimedOut("timeout_msg")
    /\ calls = 0

\* C2: when func reports retry = false on an attempt, RetryFunc returns exactly
\* the status func returned on that attempt, whatever it is and even if the
\* deadline passed while func was running, and after that attempt there is no
\* further call of func and no further sleep.
C2_NoRetryReturnsFuncStatus ==
    /\ []((a_pc = "done" /\ ~retry) => result = s)
    /\ [][~retry => (calls' = calls /\ sleeps' = sleeps /\ s' = s)]_vars

\* func cleared the flag on a later attempt that ran past the deadline and
\* failed; RetryFunc returned that failure.
C2_Witness ==
    /\ a_pc = "done"
    /\ ~retry
    /\ calls >= 2
    /\ sleeps >= 1
    /\ ~(clock < deadline)
    /\ s = Status("NetworkError", "rpc")
    /\ result = s

\* C3: for a func that always requests retry and a deadline strictly in the
\* future, RetryFunc invokes func at least once, returns only once the clock has
\* reached the deadline, returns TimedOut(timeout_msg) and not the last status
\* of func; it returns right after the first attempt that ends at or after the
\* deadline; and every call of RetryFunc returns.
C3_AlwaysRetryTimesOut ==
    /\ []((a_pc = "done" /\ retry /\ entry_now >= 0 /\ entry_now < deadline)
            => /\ result = TimedOut(TimeoutMsg(a_op))
               /\ calls >= 1
               /\ ~(clock < deadline))
    /\ [][(a_pc = "retry_check" /\ retry /\ ~(clock < deadline))
            => (a_pc' = "done" /\ calls' = calls /\ sleeps' = sleeps)]_vars
    /\ ((a_pc = "retry_entry") ~> (a_pc = "done"))

\* func asked for a retry every time, its last status was a timeout of its own,
\* and RetryFunc returned its own TimedOut after several attempts and sleeps.
C3_Witness ==
    /\ a_pc = "done"
    /\ retry
    /\ entry_now < deadline
    /\ calls >= 2
    /\ sleeps >= 1
    /\ s = Status("TimedOut", "rpc")
    /\ result = TimedOut("timeout_msg")

\* C4: every sleep between two attempts is at most the time remaining until the
\* deadline minus the duration of the last attempt, in one time unit, so that no
\* sleep ends after the deadline.
C4_SleepWithinDeadline ==
    /\ a_pc = "retry_sleep" => wait_time * NsPerUsec <= TimeoutUsec(deadline, now, stime)
    /\ sleeps > 0 => last_sleep[2] <= deadline

----------------------------------------------------------------------------
\* The claims about CreateTable and AlterTable, under SpecAdmin.

\* C5: when the completion probe of CreateTable or AlterTable fails (a transport
\* error or an embedded error), the admin call returns that failure; TimedOut
\* of the wait is returned only when no probe failed.
C5_ProbeFailureReturned ==
    (a_pc = "done" /\ a_op \in {"CreateTable", "AlterTable"})
        => /\ probe_failed # NoStatus => result = probe_failed
           /\ result = TimedOut(TimeoutMsg(a_op)) => probe_failed = NoStatus

\* C6: AlterTable with a builder that has no new table name and no schema step
\* returns InvalidArgument and sends nothing to the master.
C6_AlterTableNoChanges ==
    (a_op = "AlterTable" /\ ~alter_steps_.has_new_table_name
                         /\ Len(alter_steps_.alter_schema_steps) = 0)
        => /\ a_pc = "done"
           /\ result = InvalidArgument("No alter steps provided")
           /\ rpcs = <<>>

\* AlterTable has returned for a builder whose only operation, an AddColumn
\* with no default value, failed.
C6_Witness ==
    /\ a_op = "AlterTable"
    /\ a_pc = "done"
    /\ alter_steps_ = NewAlterTableRequestPB
    /\ builder_status.code = "InvalidArgument"
    /\ result.code = "InvalidArgument"
    /\ rpcs = <<>>

----------------------------------------------------------------------------
\* The claims about KuduSession, under SpecSession.

\* C7, as stated: in a ManualFlush session with exactly one Apply buffered,
\* SetFlushMode(ManualFlush) succeeds while SetFlushMode(AutoFlushSync) fails
\* with IllegalState and leaves the mode unchanged; with nothing buffered both
\* succeed.
C7_SameModeSucceeds ==
    \A t \in Users :
      (/\ s_pc[t] = "ret"
       /\ s_op[t].name = "SetFlushMode"
       /\ s_op[t].was = "MANUAL_FLUSH"
       /\ s_op[t].mode \in {"MANUAL_FLUSH", "AUTO_FLUSH_SYNC"})
      => IF batchers[batcher_].ops = 1 /\ s_op[t].mode = "AUTO_FLUSH_SYNC"
           THEN s_ret[t].code = "IllegalState" /\ flush_mode_ = "MANUAL_FLUSH"
           ELSE batchers[batcher_].ops <= 1
                  => (s_ret[t] = OK /\ flush_mode_ = s_op[t].mode)

\* C7, amended: in a ManualFlush session with an Apply buffered and not yet
\* flushed, SetFlushMode(ManualFlush) and SetFlushMode(AutoFlushSync) both fail
\* with IllegalState and leave the mode unchanged; once a flush has taken the
\* buffered operations away, both succeed.
C7_BufferedBlocksSetFlushMode ==
    \A t \in Users :
      (/\ s_pc[t] = "ret"
       /\ s_op[t].name = "SetFlushMode"
       /\ s_op[t].was = "MANUAL_FLUSH"
       /\ s_op[t].mode \in {"MANUAL_FLUSH", "AUTO_FLUSH_SYNC"})
      => IF batchers[batcher_].ops >= 1
           THEN s_ret[t].code = "IllegalState" /\ flush_mode_ = "MANUAL_FLUSH"
           ELSE s_ret[t] = OK /\ flush_mode_ = s_op[t].mode

\* SetFlushMode(ManualFlush) has been refused in a ManualFlush session with
\* exactly one operation buffered.
C7_Witness ==
    \E t \in Users :
      /\ s_pc[t] = "ret"
      /\ s_op[t].name = "SetFlushMode"
      /\ s_op[t].was = "MANUAL_FLUSH"
      /\ s_op[t].mode = "MANUAL_FLUSH"
      /\ batchers[batcher_].ops = 1
      /\ s_ret[t].code = "IllegalState"
      /\ flush_mode_ = "MANUAL_FLUSH"

\* C8: Apply of a mutation whose key is not set returns IllegalState at once,
\* in every flush mode: nothing is added to any batcher, the current batcher and
\* the in-flight set stay as they are, and no flush is started.
C8_UnsetKeyRejected ==
    [][\A t \in Users :
         (/\ s_pc[t] = "idle"
          /\ s_pc'[t] # "idle"
          /\ s_op'[t].name = "Apply"
          /\ ~s_op'[t].key_set)
         => /\ s_pc'[t] = "ret"
            /\ s_ret'[t].code = "IllegalState"
            /\ batchers' = batchers
            /\ batcher_' = batcher_
            /\ flushed_batchers_' = flushed_batchers_
            /\ ~crashed']_vars

\* An Apply without key has been refused in AUTO_FLUSH_SYNC mode.
C8_Witness ==
    \E t \in Users :
      /\ s_pc[t] = "ret"
      /\ s_op[t].name = "Apply"
      /\ ~s_op[t].key_set
      /\ s_op[t].was = "AUTO_FLUSH_SYNC"
      /\ s_ret[t].code = "IllegalState"
      /\ batchers[batcher_].ops = 0

\* C9: in AUTO_FLUSH_SYNC mode, Apply of a mutation with its key set runs a
\* synchronous flush to completion: it does not stop the process, it returns
\* the status the flush's Synchronizer was signalled with, and no operation is
\* pending when it has returned.
C9_AutoFlushSyncApply ==
    \A t \in Users :
      (s_op[t].name = "Apply" /\ s_op[t].key_set /\ s_op[t].was = "AUTO_FLUSH_SYNC")
      => /\ s_pc[t] # "crashed"
         /\ s_pc[t] = "ret" => (s_ret[t] = sync[t] /\ ~HasPendingOperations)

\* The batchers that have been rotated out, and whether a rotation is under way
\* (between NewBatcher and the insertion, under the lock).
RotatedOut == {b \in DOMAIN batchers : b # batcher_}
Rotating == \E t \in Users : s_pc[t] = "fa_insert"

\* C10: when FlushAsync has returned, CountBufferedOperations is 0; as long as
\* a rotated-out batch has pending operations HasPendingOperations is true; a
\* rotated-out batch is in the in-flight set until its FlushFinished, so that
\* once every rotated-out batch has called FlushFinished the set is empty.
C10_BatchRotation ==
    /\ \A t \in Users :
         (s_pc[t] = "ret" /\ s_op[t].name = "FlushAsync") => CountBufferedOperations = 0
    /\ ~Rotating =>
         /\ \A b \in RotatedOut : batchers[b].ops > 0 => HasPendingOperations
         /\ \A b \in RotatedOut : batchers[b].fin \in {"no", "want_lock", "locked"}
                                    => b \in flushed_batchers_
         /\ (\A b \in RotatedOut : batchers[b].fin \in {"callback", "done"})
              => flushed_batchers_ = {}

\* FlushAsync has returned while the batch it rotated out (two operations, one
\* answered) is still being flushed.
C10_Witness ==
    \E t \in Users :
      /\ s_pc[t] = "ret"
      /\ s_op[t].name = "FlushAsync"
      /\ batchers[old_batcher[t]].state = "flushing"
      /\ batchers[old_batcher[t]].ops = 1
      /\ old_batcher[t] \in flushed_batchers_
      /\ CountBufferedOperations = 0
      /\ HasPendingOperations

\* The mutations applied after rotating flush number e and before the next one.
MutationsOfEpoch(e) == {i \in 1 .. Len(applied) : applied[i] = e}

\* Batcher b was handed a user callback by FlushAsync; the callback has run.
UserFlushPending(b) ==
    IF b \in DOMAIN batchers THEN batchers[b].cb.kind = "user" ELSE FALSE
UserCallbackRan(b) ==
    IF b \in DOMAIN batchers
      THEN batchers[b].fin = "done" /\ batchers[b].cb_status # NoStatus
      ELSE FALSE

\* C11: with one user thread, the batch FlushAsync number k hands to its
\* batcher holds exactly the mutations applied after rotating flush k - 1 and
\* before flush k, and nothing joins it afterwards; every mutation applied is in
\* exactly one batch; and, every batcher completing, the user callback of every
\* FlushAsync call fires (as long as no CHECK stops the process), whatever the
\* order in which the batches complete.
C11_BatchesPartitionMutations ==
    /\ [](/\ \A b \in DOMAIN batchers : batchers[b].muts = MutationsOfEpoch(b - 1)
          /\ \A i \in 1 .. Len(applied) :
               Cardinality({b \in DOMAIN batchers : i \in batchers[b].muts}) = 1
          /\ \A t \in Users :
               s_pc[t] = "fa_flush" => /\ old_batcher[t] = Len(batchers) - 1
                                       /\ batcher_ = Len(batchers))
    /\ [][\A b \in DOMAIN batchers :
            batchers[b].state # "gathering" => batchers'[b].muts = batchers[b].muts]_vars
    /\ \A b \in BatcherIds : UserFlushPending(b) ~> (crashed \/ UserCallbackRan(b))

\* Two FlushAsync calls, each after two Applys: the callback of the second
\* batch has run while the first batch still has an operation to be answered.
C11_Witness ==
    /\ Len(batchers) = 3
    /\ Len(applied) = 4
    /\ batchers[1].muts = {1, 2}
    /\ batchers[2].muts = {3, 4}
    /\ batchers[1].cb.kind = "user"
    /\ batchers[2].cb.kind = "user"
    /\ batchers[2].fin = "done"
    /\ batchers[1].state = "flushing"
    /\ flush_mode_ = "MANUAL_FLUSH"

\* The steps of user thread t in which the session calls a method of a batcher:
\* Add (line 510), HasPendingOperations (lines 485, 550, 554),
\* CountBufferedOperations (line 565), SetTimeoutMillis on the fresh batcher
\* (line 476) and FlushAsync (line 540).
BatcherMethodCall(t) ==
    \/ ApplyAdd(t)
    \/ SetFlushMode(t)
    \/ HPO_Eval(t)
    \/ (CBO_Eval(t) /\ ~crashed')
    \/ NewBatcher(t)
    \/ FA_Flush(t)

----------------------------------------------------------------------------
\* The claims about KuduScanner, under SpecScanner and SpecScannerFair.

\* The close requests sent so far that carry scanner id `id`.
CloseRequestsFor(id) ==
    {k \in DOMAIN ts_rpcs : ts_rpcs[k].close_scanner /\ ts_rpcs[k].scanner_id = id}

\* Open has just returned OK on a response with no rows and no more results.
OpenedEmpty ==
    /\ sc_pc = "idle"
    /\ sc_op = "Open"
    /\ sc_ret = OK
    /\ ~last_response_.has_data
    /\ ~last_response_.has_more_results

\* Closer c is waiting for its RPC; closer c has been freed.
CloserInFlight(c) == IF c \in DOMAIN closers THEN closers[c].state = "in_flight" ELSE FALSE
CloserFreed(c) == IF c \in DOMAIN closers THEN closers[c].state = "freed" ELSE FALSE

\* C13: when the Open response carries no rows and no more results, no scanner
\* id is stored, HasMoreRows called right after Open returns false, and as long
\* as the scanner stays open no id appears, so that Close or destruction sends
\* nothing to the tablet server, creates no closer and leaves the scanner not
\* open.
C13_EmptyScanNoCloseRpc ==
    /\ [](OpenedEmpty => (open_ /\ next_req_.scanner_id = NoScannerId))
    /\ [][(OpenedEmpty /\ HasMoreRows) => (sc_pc' = "idle" /\ sc_val' = FALSE)]_vars
    /\ [][(open_ /\ next_req_.scanner_id = NoScannerId /\ open_')
            => next_req_'.scanner_id = NoScannerId]_vars
    /\ [][(open_ /\ next_req_.scanner_id = NoScannerId /\ (Close \/ DestroyScanner))
            => (ts_rpcs' = ts_rpcs /\ closers' = closers /\ ~open_')]_vars

\* A scanner whose Open found nothing has been destroyed while open: the only
\* request sent is the one of Open.
C13_Witness ==
    /\ sc_pc = "destroyed"
    /\ sc_op = "~KuduScanner"
    /\ ~open_
    /\ stored_ids = <<>>
    /\ ~data_in_open_
    /\ ~last_response_.has_error
    /\ ~last_response_.has_data
    /\ Len(ts_rpcs) = 1
    /\ ts_rpcs[1].new_scan
    /\ closers = <<>>

\* C14: for every scanner id a successful Open stored, no close request with
\* that id has been sent while the scanner is open on it, and exactly one has
\* been sent once the scanner is closed or destroyed, whatever was called in
\* between; a destroyed scanner is not open; and no close request carries
\* another id.
C14_ExactlyOneCloseRequest ==
    /\ \A i \in DOMAIN stored_ids :
         Cardinality(CloseRequestsFor(stored_ids[i])) =
            IF open_ /\ next_req_.scanner_id = stored_ids[i] THEN 0 ELSE 1
    /\ \A k \in DOMAIN ts_rpcs :
         ts_rpcs[k].close_scanner => \E i \in DOMAIN stored_ids : ts_rpcs[k].scanner_id = stored_ids[i]
    /\ sc_pc = "destroyed" => ~open_

\* Open, one NextBatch request, Close, then destruction: one close request.
C14_Witness ==
    /\ sc_pc = "destroyed"
    /\ sc_op = "Close"
    /\ stored_ids = <<ServerScannerId(1)>>
    /\ Len(ts_rpcs) = 3
    /\ ~ts_rpcs[2].new_scan
    /\ ~ts_rpcs[2].close_scanner
    /\ ts_rpcs[3].close_scanner
    /\ ts_rpcs[3].scanner_id = ServerScannerId(1)
    /\ Len(closers) = 1

\* C15: the close RPC is given the closer's own response and controller, its
\* completion changes nothing of the scanner and uses no memory of a scanner
\* that is gone, a closer is never freed twice, and every closer is freed (the
\* close RPC completing or timing out) unless a CHECK stopped the process.
C15_CloserOwnsItsState ==
    /\ [](/\ ~uaf
          /\ \A c \in DOMAIN closers :
               /\ closers[c].buffers.response = <<"closer", c>>
               /\ closers[c].buffers.controller = <<"closer", c>>
               /\ closers[c].frees = IF closers[c].state = "freed" THEN 1 ELSE 0)
    /\ [][\A c \in CloserIds :
            CloseCallback(c) => UNCHANGED <<open_, data_in_open_, next_req_, last_response_,
                                            projection_>>]_vars
    /\ \A c \in CloserIds : CloserInFlight(c) ~> (CloserFreed(c) \/ sc_pc = "crashed")

\* A scanner destroyed right after an Open that returned rows and more results:
\* its close RPC has timed out after the destruction and the closer is freed.
C15_Witness ==
    /\ sc_pc = "destroyed"
    /\ sc_op = "~KuduScanner"
    /\ data_in_open_
    /\ Len(ts_rpcs) = 2
    /\ Len(closers) = 1
    /\ closers[1].state = "freed"
    /\ closers[1].frees = 1
    /\ closers[1].status = Status("TimedOut", "rpc")
    /\ closers[1].scanner_id = ServerScannerId(1)
    /\ ~uaf

\* A call of one of the three configuration operations.
ConfigurationCall == SetProjection \/ SetBatchSizeBytes \/ AddConjunctPredicate

\* C16: SetProjection, SetBatchSizeBytes and AddConjunctPredicate are accepted
\* while the scanner is not open; on an open scanner each of them stops the
\* process and leaves the request of later NextBatch and Close calls as it is.
C16_ConfigurationOnlyBeforeOpen ==
    [][ConfigurationCall =>
         IF open_ THEN sc_pc' = "crashed" /\ next_req_' = next_req_
                  ELSE sc_pc' = "idle"]_vars

\* C17: an Open whose Scan RPC failed, or whose response carries an error,
\* returns a failure (the embedded error when there is one) and leaves the
\* scanner not open; Close or destruction of a scanner that is not open sends
\* nothing; a NextBatch whose response carries an error returns it, and after
\* any failed NextBatch the scanner is still open, and Close or destruction
\* then closes it, with a close request when it has a scanner id.
C17_ScanFailures ==
    /\ []((sc_pc = "idle" /\ sc_op = "Open") =>
            /\ open_ <=> sc_ret = OK
            /\ last_response_.has_error =>
                  (sc_ret = last_response_.error \/ sc_ret \in ScanRpcErrors))
    /\ []((sc_pc = "idle" /\ sc_op = "NextBatch") =>
            /\ open_
            /\ last_response_.has_error =>
                  (sc_ret = last_response_.error \/ sc_ret \in ScanRpcErrors))
    /\ [][(~open_ /\ (Close \/ DestroyScanner))
            => (ts_rpcs' = ts_rpcs /\ closers' = closers /\ ~open_')]_vars
    /\ [][(sc_op = "NextBatch" /\ sc_ret # OK /\ (Close \/ DestroyScanner))
            => /\ ~open_'
               /\ IF next_req_.scanner_id # NoScannerId
                    THEN /\ Len(ts_rpcs') = Len(ts_rpcs) + 1
                         /\ ts_rpcs'[Len(ts_rpcs')].close_scanner
                         /\ ts_rpcs'[Len(ts_rpcs')].scanner_id = next_req_.scanner_id
                    ELSE ts_rpcs' = ts_rpcs]_vars

\* The second Open of a scanner got an error response after the first had timed
\* out; the scanner, not open, was then destroyed without a request.
C17_Witness ==
    /\ sc_pc = "destroyed"
    /\ sc_op = "Open"
    /\ sc_ret = Status("NotFound", "server")
    /\ last_response_.has_error
    /\ ~open_
    /\ Len(ts_rpcs) = 2
    /\ ts_rpcs[2].new_scan
    /\ closers = <<>>


----------------------------------------------------------------------------
\* The resettable heartbeater.

\* The callback has just fired.
CallbackFired == hb_wpc = "callback"

\* C18: the callback never fires less than a period after the most recent
\* Reset (or Start), and while the test calls Reset at intervals shorter than
\* the period (a quarter of it, plus what usleep oversleeps) no callback has
\* fired: the latch still holds kNumPeriodsToWait at every ASSERT_EQ.
C18_NoCallbackWithinPeriodOfReset ==
    /\ CallbackFired => hb_time - hb_last_reset >= kSleepPeriodMsecs
    /\ t_pc = "usleep" => hb_fires = 0 /\ latch_ = kNumPeriodsToWait
    /\ t_test = "TestResetHeartbeats" => t_pc # "failed"

\* The ten resets are over and the first callback fires, one period after the
\* last of them.
C18_Witness ==
    /\ CallbackFired
    /\ t_test = "TestResetHeartbeats"
    /\ hb_resets = kNumResets
    /\ hb_fires = 1
    /\ hb_time - hb_last_reset = kSleepPeriodMsecs

\* The worker is in a wait that nothing has cut short.
QuietWait == hb_wpc = "wait" /\ ~hb_token /\ should_run_

\* C19: once the Reset calls have ceased (the test is in WaitForCountDown,
\* straight after Start or after its ten resets) the callback fires, and it
\* fires once per period: the k-th callback comes k periods after the last
\* Reset or Start, for every k up to kNumPeriodsToWait, so that the latch
\* reaches zero within kMaxWaitMsecs and neither test fails.
C19_FiresOncePerPeriod ==
    /\ [](QuietWait => hb_since * kSleepPeriodMsecs + hb_waited = hb_time - hb_last_reset)
    /\ [](t_pc # "failed")
    /\ \A k \in 1 .. kNumPeriodsToWait :
         (t_pc = "WaitForCountDown" /\ hb_since < k)
           ~> (hb_since = k /\ hb_time = hb_last_reset + k * kSleepPeriodMsecs)
    /\ (t_pc = "WaitForCountDown") ~> (t_pc = "done" /\ latch_ = 0)

\* TestRegularHeartbeats has counted the latch down: three callbacks in three
\* periods from Start.
C19_Witness ==
    /\ t_test = "TestRegularHeartbeats"
    /\ t_pc = "done"
    /\ hb_fires = kNumPeriodsToWait
    /\ hb_time = kNumPeriodsToWait * kSleepPeriodMsecs
    /\ latch_ = 0

\* The call of thread u has returned.
Returned(u, name) == hb_uop[u].name = name /\ hb_upc[u] = "idle"

\* C20: every Stop returns, and returns OK; a Stop of a started heartbeater
\* returns only when the worker has exited, no callback being in flight; once
\* a Stop has joined the worker no callback fires and nothing, a Reset
\* included, sets the worker going again; a thread that is not inside a call
\* can always call Reset, which returns in the same step; a Start on a started
\* heartbeater returns the already-started failure.
C20_StopJoinsAndIsFinal ==
    /\ [](\A u \in HbCallers :
            /\ Returned(u, "Stop") => hb_uret[u] = OK
            /\ Returned(u, "Stop") /\ hb_uop[u].started => hb_wpc = "exited"
            /\ Returned(u, "Start") /\ hb_uop[u].started
                 => hb_uret[u] = IllegalState("already started")
            /\ hb_upc[u] = "idle" /\ hb_resets < MaxResets => ENABLED G_Reset(u)
            /\ Returned(u, "Reset") => hb_uret[u] = OK)
    /\ [][hb_joined => hb_fires' = hb_fires /\ hb_wpc' = "exited" /\ ~should_run_']_vars
    /\ \A u \in HbCallers : (hb_upc[u] = "stop_join") ~> (hb_upc[u] = "idle")

\* After a callback has fired and a Stop has joined the worker, thread 1 has
\* called Stop once more and thread 2 has called Reset; both have returned OK.
C20_Witness ==
    /\ hb_joined
    /\ Returned(1, "Stop")
    /\ hb_uop[1].wpc = "exited"
    /\ hb_uret[1] = OK
    /\ Returned(2, "Reset")
    /\ hb_uop[2].wpc = "exited"
    /\ hb_uret[2] = OK
    /\ hb_fires >= 1

----------------------------------------------------------------------------
\* AlterTableBuilder: has_changes.

\* An operation of the builder that records a schema step whenever it is called.
RecordsStep == AddNullableColumn \/ DropColumn \/ RenameColumn

\* C22: after any sequence of builder operations has_changes() is true exactly
\* when a new table name is set or at least one schema step is recorded: every
\* successful AddColumn, AddNullableColumn, DropColumn and RenameColumn
\* records one step, RenameTable sets the name, Reset drops the steps and
\* keeps the name, and an AddColumn refused with InvalidArgument (null
\* default value) records no step.
C22_HasChangesIffNameOrStep ==
    /\ [](has_changes(alter_steps_)
            <=> (alter_steps_.has_new_table_name \/ alter_steps_.alter_schema_steps # <<>>))
    /\ [][RecordsStep
            => /\ Len(alter_steps_'.alter_schema_steps) = Len(alter_steps_.alter_schema_steps) + 1
               /\ has_changes(alter_steps_')]_vars
    /\ [][AddColumn
            => IF builder_status' = OK
                 THEN /\ Len(alter_steps_'.alter_schema_steps)
                           = Len(alter_steps_.alter_schema_steps) + 1
                      /\ has_changes(alter_steps_')
                 ELSE /\ builder_status'.code = "InvalidArgument"
                      /\ alter_steps_' = alter_steps_]_vars
    /\ [][RenameTable => has_changes(alter_steps_')]_vars
    /\ [][AlterTableBuilder_Reset
            => (has_changes(alter_steps_') <=> alter_steps_.has_new_table_name)]_vars

\* AddColumn with a null default value was refused on a builder that holds
\* nothing: has_changes() is still false.
C22_Witness ==
    /\ builder_status.code = "InvalidArgument"
    /\ ~has_changes(alter_steps_)
    /\ alter_steps_ = NewAlterTableRequestPB

----------------------------------------------------------------------------
\* CreateTable: the request and the completion probe.

\* The CreateTable call in progress or returned.
InCreateTable == a_op = "CreateTable"

\* C23: CreateTable sends one CreateTable request (none when the schema is
\* refused before anything is sent) that carries the user's split keys as
\* pre_split_keys, as many and in the same order; without WaitAssignment it
\* returns after that request and the IsCreateTableDone probe is never
\* invoked; with WaitAssignment the probe is invoked only after a CreateTable
\* response that came back without a transport failure and without an
\* embedded error, and an embedded error is returned with no probe made.
C23_CreateTableRequestAndProbe ==
    /\ [](InCreateTable /\ rpcs # <<>>
            => /\ rpcs[1] = [rpc |-> "CreateTable", table |-> alter_name,
                             pre_split_keys |-> opts.split_keys_]
               /\ \A i \in 2 .. Len(rpcs) : rpcs[i].rpc = "IsCreateTableDone"
               /\ Len(rpcs) = 1 + calls)
    /\ [](InCreateTable /\ rpcs = <<>> => calls = 0)
    /\ [](InCreateTable /\ a_pc = "done" /\ rpcs = <<>>
            => result = InvalidArgument("Invalid schema"))
    /\ [](InCreateTable /\ ~opts.wait_assignment_ => calls = 0 /\ Len(rpcs) <= 1)
    /\ [][CreateTableRpc
            => IF a_pc' = "retry_entry"
                 THEN opts.wait_assignment_ /\ result' = result
                 ELSE /\ a_pc' = "done"
                      /\ calls' = 0
                      /\ result' \in TransportErrors \cup ServerErrors \cup {OK}
                      /\ result' = OK => ~opts.wait_assignment_]_vars
    /\ [](InCreateTable /\ a_pc = "done" /\ result \in ServerErrors /\ Len(rpcs) = 1
            => calls = 0)

\* CreateTable without WaitAssignment and with two different split keys has
\* returned OK after its one request.
C23_Witness ==
    /\ InCreateTable
    /\ a_pc = "done"
    /\ result = OK
    /\ ~opts.wait_assignment_
    /\ Len(opts.split_keys_) = 2
    /\ opts.split_keys_[1] # opts.split_keys_[2]
    /\ Len(rpcs) = 1
    /\ calls = 0

----------------------------------------------------------------------------
\* The scanner: HasMoreRows and NextBatch.

\* NextBatch is called on an open scanner.
NextBatchOnOpen == NextBatch /\ open_

\* C24: HasMoreRows on an open scanner answers data_in_open_ or the last
\* response advertising more results; NextBatch sends a Scan request exactly
\* when data_in_open_ is false, and when it is true NextBatch hands out the
\* response Open buffered and clears the flag; so after an Open response with
\* rows and no more results HasMoreRows is true, and after the one NextBatch
\* it is false with no further request sent.
C24_HasMoreRowsAndNextBatch ==
    /\ [](sc_op = "HasMoreRows" /\ sc_pc = "idle"
            => /\ open_
               /\ sc_val = (data_in_open_ \/ last_response_.has_more_results))
    /\ [][NextBatchOnOpen
            => /\ (Len(ts_rpcs') = Len(ts_rpcs) + 1) <=> ~data_in_open_
               /\ data_in_open_ => ts_rpcs' = ts_rpcs
               /\ data_in_open_ => ~data_in_open_' /\ last_response_' = last_response_
               /\ ~data_in_open_'
               /\ open_']_vars
    /\ [][NextBatchOnOpen /\ data_in_open_ /\ ~last_response_.has_more_results
            => /\ ~(data_in_open_' \/ last_response_'.has_more_results)
               /\ ts_rpcs' = ts_rpcs]_vars
    /\ [][Open /\ ~open_ /\ open_' /\ last_response_'.has_data
            => data_in_open_' /\ Len(ts_rpcs') = Len(ts_rpcs) + 1]_vars

\* Open was answered with rows and no more results, NextBatch handed them
\* out, and HasMoreRows now answers false: one request was sent in all.
C24_Witness ==
    /\ open_
    /\ sc_op = "HasMoreRows"
    /\ sc_val = FALSE
    /\ last_response_.has_data
    /\ ~last_response_.has_more_results
    /\ ~data_in_open_
    /\ Len(ts_rpcs) = 1

----------------------------------------------------------------------------
\* The session: destruction.

\* Batcher b has run its flush callback.
FlushCompleted(b) == IF b \in DOMAIN batchers THEN batchers[b].fin = "done" ELSE FALSE

\* C25: the destructor of the session calls Abort on the current batcher (so
\* also when it still has pending operations) and on no other: no batcher of
\* the in-flight set is ever aborted or touched by the destruction, and every
\* batcher in flight at the destruction goes on to complete its flush.
C25_DestructionAbortsOnlyCurrent ==
    /\ [][Destroy
            => /\ aborted' = {batcher_}
               /\ batchers'[batcher_].state = "aborted"
               /\ \A b \in flushed_batchers_ : batchers'[b] = batchers[b]
               /\ flushed_batchers_' = flushed_batchers_]_vars
    /\ [](aborted \cap flushed_batchers_ = {})
    /\ [](\A b \in aborted : b = batcher_ /\ batchers[b].cb = NoCallback)
    /\ [](destroyed => batcher_ \in aborted)
    /\ [](~destroyed => aborted = {})
    /\ \A b \in BatcherIds :
         (destroyed /\ b \in flushed_batchers_) ~> FlushCompleted(b)

\* The session was destroyed with an operation pending in its current batcher
\* and a batch in flight; the current batcher was aborted, and the batch in
\* flight has completed since.
C25_Witness ==
    /\ destroyed
    /\ batchers[batcher_].ops > 0
    /\ aborted = {batcher_}
    /\ \E b \in flushed_batchers_ :
         /\ batchers[b].muts # {}
         /\ batchers[b].fin = "done"
         /\ batchers[b].state = "flushed"

----------------------------------------------------------------------------
\* The session used by two threads: the in-flight set.

\* Batcher b has been rotated out and put into the in-flight set by its
\* FlushAsync call, and its FlushFinished has not erased it yet.
InFlight(b) ==
    IF b \in DOMAIN batchers
      THEN /\ b # batcher_
           /\ \A t \in Threads : ~(s_pc[t] = "fa_insert" /\ old_batcher[t] = b)
           /\ batchers[b].fin \in {"no", "want_lock", "locked"}
      ELSE FALSE

\* Batcher b waits for the session lock in FlushFinished.
WantsLock(b) == IF b \in DOMAIN batchers THEN batchers[b].fin = "want_lock" ELSE FALSE

\* Batcher b is past the session lock of FlushFinished, or the process is gone.
PastLock(b) ==
    crashed \/ (IF b \in DOMAIN batchers
                  THEN batchers[b].fin \in {"callback", "done"} ELSE FALSE)

\* C26: with two threads calling FlushAsync and the batchers completing in any
\* order, inline on the calling thread included, a batcher is in the in-flight
\* set exactly from its rotation (the insertion under the lock) until its
\* FlushFinished; the current batcher is never in the set; a batcher is in
\* the set before its FlushAsync is invoked, and that call and FlushFinished
\* are made by threads that do not hold the session lock; the CHECK of
\* FlushFinished never fails, and FlushFinished always gets the lock.
C26_InFlightSet ==
    /\ [](\A b \in BatcherIds : (b \in flushed_batchers_) <=> InFlight(b))
    /\ [](batcher_ \notin flushed_batchers_)
    /\ [][\A t \in Threads :
            FA_Flush(t) => /\ old_batcher[t] \in flushed_batchers_
                           /\ lock_ # <<"user", t>>]_vars
    /\ [][\A b \in BatcherIds : FlushFinished(b) => b \in flushed_batchers_ /\ ~crashed']_vars
    /\ [](\A b \in DOMAIN batchers :
            batchers[b].fin = "want_lock" /\ batchers[b].runner # 0
              => lock_ # <<"user", batchers[b].runner>>)
    /\ \A b \in BatcherIds : WantsLock(b) ~> PastLock(b)

\* Both threads are inside FlushAsync: one batcher, with a mutation, is in
\* flight and being answered, the other has finished inline on its calling
\* thread and is about to take the lock in FlushFinished.
C26_Witness ==
    /\ \A t \in Threads : s_op[t].name = "FlushAsync"
    /\ \E b1, b2 \in flushed_batchers_ :
         /\ b1 # b2
         /\ batchers[b1].state = "flushing"
         /\ batchers[b1].muts # {}
         /\ batchers[b2].fin = "want_lock"
         /\ batchers[b2].runner # 0
         /\ s_pc[batchers[b2].runner] = "fa_inline"

----------------------------------------------------------------------------
\* The session used by two threads: Apply against FlushAsync.

\* C27: while one thread is in Apply and the other in FlushAsync, the mutation
\* is added to the batcher being rotated out before that batcher's FlushAsync
\* is invoked, or to the new current batcher: Add is never called on a
\* batcher whose FlushAsync has already been invoked (one that carries a
\* flush callback).
C27_NoAddAfterFlushAsync ==
    [][\A t \in Threads :
         ApplyAdd(t) => batchers[add_to[t]].cb = NoCallback]_vars

----------------------------------------------------------------------------
\* The session used by two threads: the timeout.

\* No thread is inside a call of the session.
NoCallInProgress == \A t \in Threads : s_pc[t] \in {"idle", "ret"}

\* C28: whenever no call of the session is in progress, the timeout of the
\* current batcher is the session's timeout_ms_, whatever SetTimeoutMillis
\* and FlushAsync calls the threads have made and however they interleaved.
C28_BatcherTimeoutIsSessionTimeout ==
    NoCallInProgress /\ ~crashed => batchers[batcher_].timeout = timeout_ms_


SpecStress == Init /\ [][StressNext]_vars

\* The number of tablets of the table from the start position of the request
\* on: those whose start key is not below the requested one.
TabletsFromStart(req) ==
    IF req.has_start_key
    THEN Cardinality({i \in 1..Len(tablets) : ~StrLess(tablets[i].start_key, req.start_key)})
    ELSE Len(tablets)

\* A sequence of locations is in key order: each tablet ends where the next
\* starts, and the start keys increase.
InKeyOrder(locs) ==
    \A j \in 1..(Len(locs) - 1) :
        /\ locs[j].end_key = locs[j + 1].start_key
        /\ StrLess(locs[j].start_key, locs[j + 1].start_key)

\* C21: on a table pre-split into tablets that tile the keyspace,
\* GetTableLocations with max_returned_locations = 0 fails with an error that
\* contains "must be greater than 0"; with n > 0 it returns exactly
\* min(n, number of tablets from the start position) locations in key order,
\* the first being the tablet whose start_key is the requested start key, or
\* the first tablet, with start_key "", when no start key is given.  The
\* assertions of TestGetTableLocationsOptions all pass.
C21_GetTableLocationsOptions ==
    /\ st_pc # "failed"
    /\ gtl_req # NoRequest =>
          IF gtl_req.max_returned_locations = 0
          THEN /\ gtl_s # OK
               /\ StrContains(StatusToString(gtl_s), <<"must", "be", "greater", "than", "0">>)
          ELSE /\ gtl_s = OK
               /\ Len(gtl_resp) = Min(gtl_req.max_returned_locations, TabletsFromStart(gtl_req))
               /\ InKeyOrder(gtl_resp)
               /\ gtl_resp[1].start_key =
                      (IF gtl_req.has_start_key THEN gtl_req.start_key ELSE EmptyKey)
               /\ \E i \in 1..Len(tablets) :
                      \A j \in 1..Len(gtl_resp) : gtl_resp[j] = tablets[i + j - 1]

\* The test has passed, and a later request from the start key of one of the
\* last tablets asked for more locations than there are from there on: it got
\* the tablets that remain, fewer than it asked for.
C21_Witness ==
    /\ st_pc = "passed"
    /\ gtl_req.has_start_key
    /\ gtl_s = OK
    /\ Len(gtl_resp) > 1
    /\ Len(gtl_resp) < gtl_req.max_returned_locations
    /\ gtl_resp[Len(gtl_resp)].end_key = EmptyKey

====
